---------------------------- MODULE Spec2Model ----------------------------
(***************************************************************************)
(* vision-slice: the simulation engine (GameEngine) and the hit detection  *)
(* (CollisionSystem).                                                      *)
(*                                                                         *)
(* Numbers.  The JavaScript source computes in double precision; the model *)
(* computes in fixed point, and a product or quotient is rounded toward    *)
(* minus infinity at the resolution of its unit:                           *)
(*   simulated time (dt, elapsed, timeRemaining, comboTimer, spawnTimer,   *)
(*     fadeTimer) ....................... 1 ms        (TimeUnit per second)*)
(*   spawnInterval ...................... 1 microsecond                    *)
(*   wall clock (performance.now(), recentHits, hitCooldown) ... 1 ms      *)
(*   lengths (x, y, radius) ............. 1/1000 of the screen             *)
(*   velocities (vx, vy, speed) ......... 1/1000 of the screen per second  *)
(*   probabilities and Math.random() .... bombChance in 1/1000000,         *)
(*                                        a draw in 1/1000 (0..999)        *)
(* Cosmetic object fields that no operation reads back (type, rotation,    *)
(* rotationSpeed, sliceCount, maxSlices, halfSide, emoji) are not carried. *)
(***************************************************************************)
EXTENDS Integers, Sequences, FiniteSets, TLC

VARIABLES
    \* GameEngine fields (part_000:15-38)
    score, combo, bestCombo, comboTimer, isGameOver, isPaused, elapsed,
    timeRemaining, spawnInterval, spawnTimer, bombChance, objects,
    \* module-level id counter (part_000:6)
    nextId,
    \* CollisionSystem.recentHits (collisionSystem.js:9).  The source maps an id
    \* to the performance.now() of its last hit and only ever reads
    \* now - timestamp; the model maps the id to that difference, the wall-clock
    \* time since the hit in ms, and stops counting at AgeCap > hitCooldown.
    recentHits,
    \* wall-clock time in ms since checkAll() last reported each id, kept apart
    \* from the cache (history, read by no operation; SpecColl maintains it)
    sinceHit,
    \* observation of the last call: which operation ran and with what dt,
    \* what update() returned, the callbacks it fired, and a probe record
    \* for each hit it resolved
    lastOp, frameInfo, events, hitLog,
    \* the application around the engine (part_000:729-897): the flag running,
    \* whether the start screen is hidden, the gameLoop callbacks requested
    \* with requestAnimationFrame for the next animation frame, those of the
    \* current frame still to run, and the update() calls made in the current
    \* frame (history, read by no operation)
    running, startScreenHidden, queued, firing, frameCalls,
    \* a second GameEngine of the same module: the ids of the objects in its
    \* this.objects, in the order they were pushed
    peerIds,
    \* the fruit hits update() has resolved since the last reset() (history,
    \* read by no operation; SpecFruit maintains it)
    familyHits,
    \* ObjectPool fields (part_001:14-15); an object is the number of the
    \* factory() call that made it, and made counts those calls
    pool, active, made

engineVars == <<score, combo, bestCombo, comboTimer, isGameOver, isPaused,
                elapsed, timeRemaining, spawnInterval, spawnTimer, bombChance,
                objects>>
obsVars == <<lastOp, frameInfo, events, hitLog>>
loopVars == <<running, startScreenHidden, queued, firing, frameCalls>>
peerVars == <<peerIds>>
histVars == <<familyHits>>
poolVars == <<pool, active, made>>
outerVars == <<loopVars, peerVars, histVars, poolVars>>
vars == <<engineVars, nextId, recentHits, sinceHit, obsVars, outerVars>>

---------------------------------------------------------------------------
(* Units and program constants *)

TimeUnit == 1000
InitialTime == 30 * TimeUnit
maxTime == 60 * TimeUnit
comboWindow == TimeUnit
BaseSpawnInterval == 1500000
minSpawnInterval == 400000
BaseBombChance == 120000
maxBombChance == 250000
heartChance == 60000
gravity == 400
FadeDuration == 600
BombFadeTimer == 400
TimePenalty == 10 * TimeUnit
TimeBonus == 10 * TimeUnit
BasePoints == 10
MaxGeneration == 2
minSliceSpeed == 300
handRadius == 50
hitCooldown == 150
BombRadius == 35
HeartRadius == 30
MaxFrameDt == 50

(* Bounds of the exploration *)
MaxId == 5
AgeCap == 200
MaxQueued == 3
LoopIds == 25
MaxElapsedSec == 40
MaxElapsed == MaxElapsedSec * TimeUnit
RampElapsedSec == 400
RampElapsed == RampElapsedSec * TimeUnit
RampIds == 200
ShortElapsedSec == 1
ShortElapsed == ShortElapsedSec * TimeUnit
ClockStep == 200

Max(a, b) == IF a >= b THEN a ELSE b
Min(a, b) == IF a <= b THEN a ELSE b

\* floor(sqrt(n)) by bisection, n >= 0
RECURSIVE SqrtBisect(_, _, _)
SqrtBisect(n, lo, hi) ==
    IF hi - lo <= 1 THEN lo
    ELSE LET mid == (lo + hi) \div 2
         IN IF mid * mid <= n THEN SqrtBisect(n, mid, hi)
                              ELSE SqrtBisect(n, lo, mid)
ISqrt(n) == SqrtBisect(n, 0, 46340)

NoFrame == [spawned |-> <<>>, removed |-> <<>>, hits |-> <<>>]

---------------------------------------------------------------------------
(* Inputs *)

\* A hand of the snapshot: position, velocity, speed, visible
NoHand == [x |-> 0, y |-> 0, vx |-> 0, vy |-> 0, speed |-> 0, visible |-> FALSE]
FastHandAt(px, py) ==
    [x |-> px, y |-> py, vx |-> 0, vy |-> 300, speed |-> 300, visible |-> TRUE]
SlowHandAt(px, py) ==
    [x |-> px, y |-> py, vx |-> 0, vy |-> 200, speed |-> 200, visible |-> TRUE]

\* Math.random() outcomes, in 1/1000: for the kind of an object (a bomb, a
\* heart while elapsed < 30 s, a fruit) and for the size of a batch (one object)
RollDraws == {0, 150, 900}
CountDraws == {0}
DrawsOf(rolls) == [roll : rolls, x : {500}, vx : {0}, vy : {200},
                   radius : {143}, jitter : {500}]

DtSet == {0, 600}
BigDtSet == {20000, 30000, 31000}

---------------------------------------------------------------------------
(* GameEngine: the engine as one record, so that update() can be written   *)
(* as the sequence of steps it is.  events, spawned, removed, hits and     *)
(* hitLog accumulate what the call fires and returns; toRemove is the      *)
(* local list of update(); pieces holds what the last _splitFruit returned;*)
(* atCall keeps combo and comboTimer as they stood when update() was       *)
(* called, for the probes.                                                 *)

Engine ==
    [score |-> score, combo |-> combo, bestCombo |-> bestCombo,
     comboTimer |-> comboTimer, isGameOver |-> isGameOver, elapsed |-> elapsed,
     timeRemaining |-> timeRemaining, spawnInterval |-> spawnInterval,
     spawnTimer |-> spawnTimer, bombChance |-> bombChance, objects |-> objects,
     nextId |-> nextId, recentHits |-> recentHits,
     events |-> <<>>, spawned |-> <<>>, removed |-> <<>>, hits |-> <<>>,
     hitLog |-> <<>>, toRemove |-> <<>>, pieces |-> <<>>,
     atCall |-> [combo |-> combo, comboTimer |-> comboTimer]]

\* the cache once the wall clock has advanced by d ms
Older(ages, d) == [i \in DOMAIN ages |-> Min(AgeCap, ages[i] + d)]

\* the engine at a call made wall ms of wall-clock time after the last one
EngineAt(wall) == [Engine EXCEPT !.recentHits = Older(@, wall)]

Fire(g, cb, arg) == [g EXCEPT !.events = Append(@, [cb |-> cb, arg |-> arg])]
FireTime(g) == Fire(g, "onTimeChange", g.timeRemaining)

\* generateId (part_000:7-9): the id the next object gets
\* variant: the counter is returned as it stands
generateIdStuck(g) == g.nextId
generateId(g) == g.nextId + 1

\* _spawnObject (part_000:63-97): the object made from the draws d
NewObject(g, d) ==
    LET isBomb == d.roll * 1000 < g.bombChance
        isHeart == ~isBomb /\ d.roll * 1000 < g.bombChance + heartChance
    IN [id |-> generateId(g),
        isBomb |-> isBomb,
        isHeart |-> isHeart,
        x |-> 80 + (d.x * 840) \div 1000,
        y |-> -80,
        vx |-> ((d.vx - 500) * 120) \div 1000,
        vy |-> 80 + (d.vy * 100) \div 1000,
        radius |-> IF isBomb THEN BombRadius
                   ELSE IF isHeart THEN HeartRadius
                   ELSE 28 + (d.radius * 14) \div 1000,
        active |-> TRUE,
        fadeTimer |-> 0,
        fading |-> FALSE,
        generation |-> 0]

\* this.objects.push(obj); onSpawn(obj) (part_000:99-100, 154-155); the id
\* counter now stands at the id the object took
PushObject(g, obj) ==
    Fire([g EXCEPT !.nextId = obj.id, !.objects = Append(@, obj)],
         "onSpawn", obj.id)

\* _spawnObject (part_000:63-102)
SpawnObject(g, d) == PushObject(g, NewObject(g, d))

\* The split direction of _splitFruit (part_000:118-126), a unit vector in 1/1000
\* handSpeed > 0.01 is decided on the squares: handSpeed is rounded down
HandSpeedOf(hand) == ISqrt(hand.vx * hand.vx + hand.vy * hand.vy)
\* variant: the default direction is (0, 1)
PerpAtUp(hand, handSpeed) ==
    IF hand.vx * hand.vx + hand.vy * hand.vy > 10 * 10
    THEN [x |-> (-hand.vy * 1000) \div handSpeed,
          y |-> (hand.vx * 1000) \div handSpeed]
    ELSE [x |-> 0, y |-> 1000]
PerpAt(hand, handSpeed) ==
    IF hand.vx * hand.vx + hand.vy * hand.vy > 10 * 10
    THEN [x |-> (-hand.vy * 1000) \div handSpeed,
          y |-> (hand.vx * 1000) \div handSpeed]
    ELSE [x |-> 1000, y |-> 0]
Perp(hand) == PerpAt(hand, HandSpeedOf(hand))

\* spreadSpeed (part_000:128)
SpreadSpeed(hand) == 150 + (HandSpeedOf(hand) * 100) \div 1000

\* variant: pieces of half the radius
SplitRadiusHalf(r) == r \div 2
SplitRadius(r) == (r * 7) \div 10
\* variant: a piece of generation 2 is split as well
CanSplitDeeper(obj) == obj.generation <= MaxGeneration
CanSplit(obj) == obj.generation < MaxGeneration

\* One piece of _splitFruit (part_000:130-152)
PieceAt(g, obj, hand, sign, perp, spreadSpeed) ==
    [id |-> generateId(g),
     isBomb |-> FALSE,
     isHeart |-> FALSE,
     x |-> obj.x + (perp.x * sign * 10) \div 1000,
     y |-> obj.y + (perp.y * sign * 10) \div 1000,
     vx |-> obj.vx + (perp.x * sign * spreadSpeed) \div 1000
                   + (hand.vx * 50) \div 1000,
     vy |-> obj.vy + (perp.y * sign * spreadSpeed) \div 1000
                   + (hand.vy * 50) \div 1000 - 50,
     radius |-> SplitRadius(obj.radius),
     active |-> TRUE,
     fadeTimer |-> 0,
     fading |-> FALSE,
     generation |-> obj.generation + 1]

\* iteration i (0 or 1) of the loop of _splitFruit on the object at place k
AddPiece(g, k, hand, i) ==
    PushObject(g, PieceAt(g, g.objects[k], hand, IF i = 0 THEN 1 ELSE -1,
                          Perp(hand), SpreadSpeed(hand)))

NotePiece(g) == [g EXCEPT !.pieces = Append(@, g.nextId)]

\* _splitFruit (part_000:107-159) on the object at place k of g.objects;
\* g.pieces becomes the ids of the pieces it returns
SplitFruit(g, k, hand) ==
    IF ~CanSplit(g.objects[k])
    THEN [g EXCEPT !.objects[k].fading = TRUE,
                   !.objects[k].fadeTimer = 0,
                   !.pieces = <<>>]
    ELSE NotePiece(AddPiece(NotePiece(AddPiece([g EXCEPT !.pieces = <<>>],
                                               k, hand, 0)),
                            k, hand, 1))

---------------------------------------------------------------------------
(* CollisionSystem (collisionSystem.js) *)

\* sqrt(d) <= v and sqrt(d) >= v for d >= 0, decided without taking the root
SqrtLe(d, v) == v >= 0 /\ d <= v * v
SqrtGe(d, v) == v <= 0 \/ d >= v * v

\* (t1 >= 0 && t1 <= 1) || (t2 >= 0 && t2 <= 1) with t1, t2 the roots
\* (-b -+ sqrt(d)) / (2a), d >= 0 (collisionSystem.js:43-47).  With a = 0 the
\* source divides 0 by 0: t1 and t2 are NaN and every comparison is false.
RootInUnit(a, b, d) ==
    IF a = 0 THEN FALSE
    ELSE \/ SqrtLe(d, -b) /\ SqrtGe(d, -b - 2 * a)
         \/ SqrtGe(d, b) /\ SqrtLe(d, 2 * a + b)

Discriminant(a, b, c) == b * b - 4 * a * c
\* variant: the line through the two points, not the segment
IntersectAtLine(a, b, d) == d >= 0
IntersectAt(a, b, d) == IF d < 0 THEN FALSE ELSE RootInUnit(a, b, d)

\* _lineCircleIntersect (collisionSystem.js:30-48)
LineCircleIntersect(x1, y1, x2, y2, cx, cy, r) ==
    LET dx == x2 - x1
        dy == y2 - y1
        fx == x1 - cx
        fy == y1 - cy
        a == dx * dx + dy * dy
        b == 2 * (fx * dx + fy * dy)
        c == fx * fx + fy * fy - r * r
    IN IntersectAt(a, b, Discriminant(a, b, c))

\* dist < combinedRadius (collisionSystem.js:17-22), on the squares
StaticOverlap(hand, obj) ==
    LET dx == hand.x - obj.x
        dy == hand.y - obj.y
        combinedRadius == handRadius + obj.radius
    IN dx * dx + dy * dy < combinedRadius * combinedRadius

\* the swept test (collisionSystem.js:24-27): the segment from the hand one
\* tick of 1/60 s earlier to the hand, against the object's circle
SweptHit(hand, obj) ==
    LineCircleIntersect(hand.x - hand.vx \div 60, hand.y - hand.vy \div 60,
                        hand.x, hand.y, obj.x, obj.y, handRadius + obj.radius)

\* checkCollision (collisionSystem.js:13-28)
\* variant: without the test of the speed (collisionSystem.js:15)
CheckCollisionAnySpeed(hand, obj) ==
    IF ~hand.visible THEN FALSE
    ELSE IF StaticOverlap(hand, obj) THEN TRUE
    ELSE SweptHit(hand, obj)
CheckCollision(hand, obj) ==
    IF ~hand.visible THEN FALSE
    ELSE IF hand.speed < minSliceSpeed THEN FALSE
    ELSE IF StaticOverlap(hand, obj) THEN TRUE
    ELSE SweptHit(hand, obj)

\* now - t > this.hitCooldown (collisionSystem.js:56), age being now - t
Expired(age) == age > hitCooldown

\* Clean old cooldowns (collisionSystem.js:55-57)
PruneCooldowns(recent) ==
    [id \in {i \in DOMAIN recent : ~Expired(recent[i])} |-> recent[id]]

\* this.recentHits.set(id, now) (collisionSystem.js:69)
Stamp(recent, id) ==
    [i \in DOMAIN recent \cup {id} |-> IF i = id THEN 0 ELSE recent[i]]

\* the first side, in the order left, right, whose hand collides; "none"
\* variant: the sides in the order right, left
FirstSideRightFirst(hands, obj) ==
    IF CheckCollision(hands.right, obj) THEN "right"
    ELSE IF CheckCollision(hands.left, obj) THEN "left"
    ELSE "none"
FirstSide(hands, obj) ==
    IF CheckCollision(hands.left, obj) THEN "left"
    ELSE IF CheckCollision(hands.right, obj) THEN "right"
    ELSE "none"

\* variant: the loop body without the cooldown test of collisionSystem.js:63
CheckOneNoCooldown(st, hands, obj, k, side) ==
    IF obj.fading \/ side = "none"
    THEN st
    ELSE [hits |-> Append(st.hits, [object |-> k, hand |-> hands[side],
                                    side |-> side]),
          recentHits |-> Stamp(st.recentHits, obj.id)]

\* what the loop body (collisionSystem.js:60-72) does for the object at
\* place k, side being the first colliding side; st = [hits, recentHits]
CheckOne(st, hands, obj, k, side) ==
    IF obj.fading \/ obj.id \in DOMAIN st.recentHits \/ side = "none"
    THEN st
    ELSE [hits |-> Append(st.hits, [object |-> k, hand |-> hands[side],
                                    side |-> side]),
          recentHits |-> Stamp(st.recentHits, obj.id)]

\* the loop of checkAll (collisionSystem.js:59-73) from object k on;
\* a hit names the object by its place in objs
RECURSIVE CheckFrom(_, _, _, _)
CheckFrom(st, hands, objs, k) ==
    IF k > Len(objs) THEN st
    ELSE CheckFrom(CheckOne(st, hands, objs[k], k, FirstSide(hands, objs[k])),
                   hands, objs, k + 1)

\* checkAll (collisionSystem.js:50-75): [hits, recentHits]
CheckAll(hands, objs, recent) ==
    CheckFrom([hits |-> <<>>, recentHits |-> PruneCooldowns(recent)],
              hands, objs, 1)

---------------------------------------------------------------------------
(* GameEngine.update (part_000:161-300), step by step *)

\* Countdown timer (part_000:164-169)
Countdown(g, dt) ==
    FireTime([g EXCEPT !.elapsed = @ + dt, !.timeRemaining = @ - dt])

\* part_000:170-174
\* variant: timeRemaining < 0
TimeUpStrict(g) == g.timeRemaining < 0
TimeUp(g) == g.timeRemaining <= 0
EndGame(g) == [g EXCEPT !.timeRemaining = 0, !.isGameOver = TRUE]

\* Difficulty ramp (part_000:176-178)
\* variant: no lower bound on the interval
RampIntervalUnbounded(e) == BaseSpawnInterval - e * 3
RampInterval(e) == Max(minSpawnInterval, BaseSpawnInterval - e * 3)
RampBombChance(e) == Min(maxBombChance, BaseBombChance + e)
Ramp(g) == [g EXCEPT !.spawnInterval = RampInterval(g.elapsed),
                     !.bombChance = RampBombChance(g.elapsed)]

\* 1 + floor(random * min(3, 1 + elapsed / 20)) with the draw rc (part_000:184)
\* variant: min(4, 1 + elapsed / 20)
SpawnCountToFour(e, rc) ==
    1 + (rc * Min(4 * 20 * TimeUnit, 20 * TimeUnit + e)) \div (1000 * 20 * TimeUnit)
SpawnCount(e, rc) ==
    1 + (rc * Min(3 * 20 * TimeUnit, 20 * TimeUnit + e)) \div (1000 * 20 * TimeUnit)

\* this.spawnTimer += dt; this.spawnTimer >= this.spawnInterval
SpawnDue(g, dt) == (g.spawnTimer + dt) * 1000 >= g.spawnInterval

\* obj.x = ...; frameInfo.spawned.push(obj) (part_000:187-188) for the object
\* just pushed, the i-th of count
PlaceSpawned(g, i, count, d) ==
    [g EXCEPT !.objects[Len(g.objects)].x =
                  80 + (i * 840) \div count + ((d.jitter - 500) * 100) \div 1000,
              !.spawned = Append(@, g.nextId)]

\* the loop of part_000:185-189 from object i of count on
RECURSIVE SpawnLoop(_, _, _, _)
SpawnLoop(g, i, count, ds) ==
    IF i >= count THEN g
    ELSE SpawnLoop(PlaceSpawned(SpawnObject(g, ds[i + 1]), i, count, ds[i + 1]),
                   i + 1, count, ds)

\* Spawning (part_000:180-190)
Spawning(g, dt, rc, ds) ==
    IF SpawnDue(g, dt)
    THEN SpawnLoop([g EXCEPT !.spawnTimer = 0], 0, SpawnCount(g.elapsed, rc), ds)
    ELSE [g EXCEPT !.spawnTimer = @ + dt]

\* Combo decay (part_000:192-196)
\* variant: the timer runs down and combo stays
ComboDecayTimerOnly(g, dt) ==
    IF g.combo > 0 THEN [g EXCEPT !.comboTimer = @ - dt] ELSE g
ComboDecay(g, dt) ==
    IF g.combo > 0
    THEN [g EXCEPT !.comboTimer = @ - dt,
                   !.combo = IF g.comboTimer - dt <= 0 THEN 0 ELSE @]
    ELSE g

\* the integration both branches of the physics loop share (part_000:205-207,
\* 215-217): vy first, then x and y with the new vy
Integrate(obj, dt) ==
    [obj EXCEPT !.vy = @ + (gravity * dt) \div TimeUnit,
                !.x = @ + (obj.vx * dt) \div TimeUnit,
                !.y = @ + ((obj.vy + (gravity * dt) \div TimeUnit) * dt) \div TimeUnit]

\* variant: the fade ends when fadeTimer reaches 0.6
FadeExpiredAt(obj) == obj.fadeTimer >= FadeDuration
FadeExpired(obj) == obj.fadeTimer > FadeDuration
\* variant: a lower bound of 0.9
BelowScreenEarly(obj) == obj.y > 900
BelowScreen(obj) == obj.y > 1200
BesideScreen(obj) == obj.x < -150 \/ obj.x > 1150

\* the removals the physics loop queues for the object o at place k
\* (part_000:209-211, 220-225)
Queued(o, k) ==
    IF o.fading
    THEN IF FadeExpired(o) THEN <<k>> ELSE <<>>
    ELSE (IF BelowScreen(o) THEN <<k>> ELSE <<>>)
         \o (IF BesideScreen(o) THEN <<k>> ELSE <<>>)

\* one object of the physics loop, moved (part_000:203-218)
Moved(obj, dt) ==
    IF obj.fading
    THEN Integrate([obj EXCEPT !.fadeTimer = @ + dt], dt)
    ELSE Integrate(obj, dt)

PutMoved(g, k, o) ==
    [g EXCEPT !.objects[k] = o, !.toRemove = @ \o Queued(o, k)]

\* Physics (part_000:198-226) from object k on; toRemove lists places in objects
RECURSIVE PhysicsFrom(_, _, _)
PhysicsFrom(g, k, dt) ==
    IF k > Len(g.objects) THEN g
    ELSE PhysicsFrom(IF ~g.objects[k].active THEN g
                     ELSE PutMoved(g, k, Moved(g.objects[k], dt)),
                     k + 1, dt)

Physics(g, dt) == PhysicsFrom(g, 1, dt)

\* the engine after steps 2-5 of a frame, g being the engine after the
\* countdown
BeforeCollision(g, dt, rc, ds) ==
    Physics(ComboDecay(Spawning(Ramp(g), dt, rc, ds), dt), dt)

\* the places in objects of the objects handed to checkAll (part_000:229)
\* variant: every active object is handed over
IsLiveOrFading(o) == o.active
IsLive(o) == o.active /\ ~o.fading
IsFading(o) == o.fading
IsActive(o) == o.active
RECURSIVE SliceableFrom(_, _)
SliceableFrom(objs, k) ==
    IF k > Len(objs) THEN <<>>
    ELSE (IF IsLive(objs[k]) THEN <<k>> ELSE <<>>) \o SliceableFrom(objs, k + 1)
Sliceable(objs) == SliceableFrom(objs, 1)

LiveIds(objs) == {objs[k].id : k \in {i \in 1..Len(objs) : IsLive(objs[i])}}
FadingIds(objs) == {objs[k].id : k \in {i \in 1..Len(objs) : IsFading(objs[i])}}

\* what a probe records of one resolved hit: the struck object, and the
\* engine right before (g) and right after (h) the loop body ran for it
Probe(g, h, k, kind) ==
    [id |-> g.objects[k].id, kind |-> kind,
     generation |-> g.objects[k].generation, radius |-> g.objects[k].radius,
     wasFading |-> g.objects[k].fading,
     timeBefore |-> g.timeRemaining, timeAfter |-> h.timeRemaining,
     comboBefore |-> g.combo, comboAfter |-> h.combo,
     comboAtCall |-> g.atCall.combo, comboTimerAtCall |-> g.atCall.comboTimer,
     scoreBefore |-> g.score, scoreAfter |-> h.score,
     liveBefore |-> LiveIds(g.objects),
     fadingAfter |-> FadingIds(h.objects),
     countBefore |-> Len(g.objects), countAfter |-> Len(h.objects),
     nextIdAfter |-> h.nextId,
     pieces |-> IF kind = "fruit" THEN h.pieces ELSE <<>>]

\* frameInfo.hits.push(hit), and the probe
Logged(g, h, hit, kind) ==
    [h EXCEPT !.hitLog = Append(@, Probe(g, h, hit.object, kind)),
              !.hits = Append(@, [id |-> g.objects[hit.object].id,
                                  side |-> hit.side])]

\* obj.fading = true; obj.fadeTimer = 0
Faded(objs, k) == [objs EXCEPT ![k].fading = TRUE, ![k].fadeTimer = 0]

\* variant: only the objects behind the bomb in objects are cleared
ClearLater(objs, k) ==
    [i \in 1..Len(objs) |->
        IF i > k /\ objs[i].active /\ ~objs[i].fading
        THEN [objs[i] EXCEPT !.fading = TRUE, !.fadeTimer = BombFadeTimer]
        ELSE objs[i]]

\* "Clear EVERYTHING on screen" (part_000:241-247): every object other than
\* the one at place k that is active and not fading starts a fast fade
ClearOthers(objs, k) ==
    [i \in 1..Len(objs) |->
        IF i # k /\ objs[i].active /\ ~objs[i].fading
        THEN [objs[i] EXCEPT !.fading = TRUE, !.fadeTimer = BombFadeTimer]
        ELSE objs[i]]

\* variants: the penalty and the bonus without the clamp, the points with
\* combo before the increment
BombTimeUnclamped(t) == t - TimePenalty
BombTime(t) == Max(0, t - TimePenalty)
HeartTimeUnclamped(t) == t + TimeBonus
HeartTime(t) == Min(maxTime, t + TimeBonus)
SlicePointsBefore(generation, c) == BasePoints * (generation + 1) * Max(1, c - 1)
SlicePoints(generation, c) == BasePoints * (generation + 1) * Max(1, c)

\* the bomb branch (part_000:235-250) for the object at place k
\* variant: onTimeChange is fired before onBomb
HitBombTimeFirst(g, k) ==
    Fire(FireTime([g EXCEPT !.timeRemaining = BombTime(@),
                            !.objects = ClearOthers(Faded(@, k), k)]),
         "onBomb", g.objects[k].id)
HitBomb(g, k) ==
    FireTime(Fire([g EXCEPT !.timeRemaining = BombTime(@),
                            !.objects = ClearOthers(Faded(@, k), k)],
                  "onBomb", g.objects[k].id))

\* the heart branch (part_000:259-265)
\* variant: the heart is left as it is
HitHeartStaysLive(g, k) ==
    FireTime(Fire([g EXCEPT !.timeRemaining = HeartTime(@)],
                  "onHeart", g.objects[k].id))
HitHeart(g, k) ==
    FireTime(Fire([g EXCEPT !.timeRemaining = HeartTime(@),
                            !.objects = Faded(@, k)],
                  "onHeart", g.objects[k].id))

\* part_000:272-286 for the object obj at place k, s being the engine after
\* _splitFruit
\* variant: without the update of bestCombo (part_000:278)
SlicedNoBest(s, obj, k) ==
    Fire(Fire([s EXCEPT !.spawned = @ \o s.pieces,
                        !.objects = Faded(@, k),
                        !.combo = @ + 1,
                        !.comboTimer = comboWindow,
                        !.score = @ + SlicePoints(obj.generation, s.combo + 1)],
              "onSlice", obj.id),
         "onScore", s.score + SlicePoints(obj.generation, s.combo + 1))
Sliced(s, obj, k) ==
    Fire(Fire([s EXCEPT !.spawned = @ \o s.pieces,
                        !.objects = Faded(@, k),
                        !.combo = @ + 1,
                        !.comboTimer = comboWindow,
                        !.bestCombo = IF s.combo + 1 > @ THEN s.combo + 1 ELSE @,
                        !.score = @ + SlicePoints(obj.generation, s.combo + 1)],
              "onSlice", obj.id),
         "onScore", s.score + SlicePoints(obj.generation, s.combo + 1))

\* the fruit branch (part_000:270-286)
HitFruit(g, k, hand) == Sliced(SplitFruit(g, k, hand), g.objects[k], k)

\* if (this.timeRemaining <= 0) { this.isGameOver = true; break; }
BombOver(h) == IF h.timeRemaining <= 0 THEN [h EXCEPT !.isGameOver = TRUE] ELSE h

\* the body of the loop over the hits (part_000:233-287) for one hit, which
\* names its object by its place in objects
ResolveHit(g, hit) ==
    IF g.objects[hit.object].isBomb
    THEN BombOver(Logged(g, HitBomb(g, hit.object), hit, "bomb"))
    ELSE IF g.objects[hit.object].isHeart
    THEN Logged(g, HitHeart(g, hit.object), hit, "heart")
    ELSE Logged(g, HitFruit(g, hit.object, hit.hand), hit, "fruit")

\* the loop over the hits (part_000:232-288) from hit j on.  The engine is
\* running when the loop starts, so isGameOver after a hit means the break.
RECURSIVE ResolveFrom(_, _, _)
\* variant: without the break of part_000:254
ResolveNextAlways(h, hs, j) == ResolveFrom(h, hs, j + 1)
ResolveNext(h, hs, j) == IF h.isGameOver THEN h ELSE ResolveFrom(h, hs, j + 1)
ResolveFrom(g, hs, j) ==
    IF j > Len(hs) THEN g ELSE ResolveNext(ResolveHit(g, hs[j]), hs, j)

Pick(objs, places) == [i \in 1..Len(places) |-> objs[places[i]]]
Relocate(hits, places) ==
    [j \in 1..Len(hits) |-> [hits[j] EXCEPT !.object = places[hits[j].object]]]

Resolve(g, places, res) ==
    ResolveFrom([g EXCEPT !.recentHits = res.recentHits],
                Relocate(res.hits, places), 1)
CollideAt(g, hands, places) ==
    Resolve(g, places, CheckAll(hands, Pick(g.objects, places), g.recentHits))

\* Collision (part_000:228-230) and the resolution of its hits
Collide(g, hands) == CollideAt(g, hands, Sliceable(g.objects))

\* this.objects after Cleanup: the objects at the places in gone are marked
\* inactive and spliced out
\* variant: marked inactive and left in this.objects
SplicedNone(objs, gone) ==
    [i \in 1..Len(objs) |->
        IF i \in gone THEN [objs[i] EXCEPT !.active = FALSE] ELSE objs[i]]
Spliced(objs, gone) ==
    SelectSeq([i \in 1..Len(objs) |->
                  IF i \in gone THEN [objs[i] EXCEPT !.active = FALSE] ELSE objs[i]],
              IsActive)

\* Cleanup (part_000:290-297) from entry j of toRemove on; gone is the set of
\* places already spliced out: a place queued twice is reported twice and
\* spliced once
RECURSIVE CleanupFrom(_, _, _)
CleanupFrom(g, j, gone) ==
    IF j > Len(g.toRemove)
    THEN [g EXCEPT !.objects = Spliced(@, gone)]
    ELSE CleanupFrom(Fire([g EXCEPT !.removed =
                                        Append(@, g.objects[g.toRemove[j]].id)],
                          "onRemove", g.objects[g.toRemove[j]].id),
                     j + 1, gone \cup {g.toRemove[j]})

Cleanup(g) == CleanupFrom(g, 1, {})

\* update(dt, hands) of a running engine past the countdown, from the engine
\* pre after the physics step
AfterPhysics(pre, hands) == Cleanup(Collide(pre, hands))

---------------------------------------------------------------------------
(* The snapshots the exploration hands to update(): per side no hand, a    *)
(* fast or a slow hand on an object, or a fast hand that has just swept    *)
(* through the rim of an object; placed where the objects are after this   *)
(* frame's physics.                                                        *)

SweptHandAt(obj) == FastHandAt(obj.x, obj.y + handRadius + obj.radius + 2)
FastHandOn(obj) == FastHandAt(obj.x, obj.y)
SlowHandOn(obj) == SlowHandAt(obj.x, obj.y)

Places(objs) == 1..Len(objs)
HandChoices(objs) ==
    {[left |-> NoHand, right |-> NoHand]}
    \cup {[left |-> FastHandOn(objs[k]), right |-> NoHand] : k \in Places(objs)}
    \cup {[left |-> SlowHandOn(objs[k]), right |-> FastHandOn(objs[k])] :
              k \in Places(objs) \cap {1}}
    \cup {[left |-> NoHand, right |-> SweptHandAt(objs[k])] :
              k \in Places(objs) \cap {1}}
    \cup {[left |-> FastHandOn(objs[p[1]]), right |-> FastHandOn(objs[p[2]])] :
              p \in {q \in Places(objs) \X Places(objs) :
                         q[1] < q[2] \/ q = <<1, 1>>}}
NoHands == [left |-> NoHand, right |-> NoHand]

---------------------------------------------------------------------------
(* Actions *)

Init ==
    /\ score = 0 /\ combo = 0 /\ bestCombo = 0 /\ comboTimer = 0
    /\ isGameOver = FALSE /\ isPaused = FALSE /\ elapsed = 0
    /\ timeRemaining = InitialTime
    /\ spawnInterval = BaseSpawnInterval /\ spawnTimer = 0
    /\ bombChance = BaseBombChance
    /\ objects = <<>>
    /\ nextId = 0
    /\ recentHits = <<>>
    /\ sinceHit = <<>>
    /\ lastOp = [op |-> "new", dt |-> 0]
    /\ frameInfo = NoFrame /\ events = <<>> /\ hitLog = <<>>
    /\ running = FALSE /\ startScreenHidden = FALSE
    /\ queued = 0 /\ firing = 0 /\ frameCalls = 0
    /\ peerIds = <<>>
    /\ familyHits = 0
    /\ pool = <<>> /\ active = <<>> /\ made = 0

\* the ids of the set ids are reported now
Reported(ages, ids) ==
    [i \in DOMAIN ages \cup ids |-> IF i \in ids THEN 0 ELSE ages[i]]

\* the engine's fields and what the call returned, from the record h
Store(h) ==
    /\ score' = h.score /\ combo' = h.combo /\ bestCombo' = h.bestCombo
    /\ comboTimer' = h.comboTimer /\ isGameOver' = h.isGameOver
    /\ elapsed' = h.elapsed /\ timeRemaining' = h.timeRemaining
    /\ spawnInterval' = h.spawnInterval /\ spawnTimer' = h.spawnTimer
    /\ bombChance' = h.bombChance /\ objects' = h.objects
    /\ nextId' = h.nextId /\ recentHits' = h.recentHits
    /\ frameInfo' = [spawned |-> h.spawned, removed |-> h.removed, hits |-> h.hits]
    /\ events' = h.events /\ hitLog' = h.hitLog

\* variant: elapsed advances before the test of part_000:162
UpdateIdleCounting(dt) ==
    /\ isGameOver \/ isPaused
    /\ elapsed' = elapsed + dt
    /\ lastOp' = [op |-> "update", dt |-> dt]
    /\ frameInfo' = NoFrame /\ events' = <<>> /\ hitLog' = <<>>
    /\ UNCHANGED <<score, combo, bestCombo, comboTimer, isGameOver, isPaused,
                   timeRemaining, spawnInterval, spawnTimer, bombChance, objects,
                   nextId, recentHits, sinceHit>>

\* update() when isGameOver or isPaused (part_000:162)
UpdateIdle(dt) ==
    /\ isGameOver \/ isPaused
    /\ lastOp' = [op |-> "update", dt |-> dt]
    /\ frameInfo' = NoFrame /\ events' = <<>> /\ hitLog' = <<>>
    /\ UNCHANGED <<engineVars, nextId, recentHits, sinceHit>>

\* update(dt, hands) in which the countdown expires (part_000:164-174),
\* called wall ms after the last call; the exploration stops at elapsed =
\* until
UpdateExpire(dt, wall, until) ==
    /\ ~(isGameOver \/ isPaused)
    /\ elapsed + dt <= until
    /\ TimeUp(Countdown(EngineAt(wall), dt))
    /\ Store(EndGame(Countdown(EngineAt(wall), dt)))
    /\ lastOp' = [op |-> "update", dt |-> dt]
    /\ UNCHANGED <<isPaused, sinceHit>>

\* update(dt, hands) of a running engine that goes on past the countdown,
\* called wall ms after the last call.  rolls and counts are the outcomes
\* Math.random() may take for the kind and for the size of a batch, ids the
\* largest id the exploration hands out, until the elapsed time it stops at.
UpdateRunning(dt, wall, rolls, counts, withHands, ids, until) ==
    /\ ~(isGameOver \/ isPaused)
    /\ elapsed + dt <= until
    /\ ~TimeUp(Countdown(Engine, dt))
    /\ \E rc \in IF SpawnDue(Ramp(Countdown(Engine, dt)), dt) THEN counts ELSE {0} :
         \E ds \in [1..(IF SpawnDue(Ramp(Countdown(Engine, dt)), dt)
                        THEN SpawnCount(elapsed + dt, rc) ELSE 0) -> DrawsOf(rolls)] :
            \E pre \in {BeforeCollision(Countdown(EngineAt(wall), dt), dt, rc, ds)} :
               /\ pre.nextId <= ids
               /\ \E hands \in IF withHands THEN HandChoices(pre.objects)
                                            ELSE {NoHands} :
                    \E h \in {AfterPhysics(pre, hands)} :
                       /\ h.nextId <= ids
                       /\ Store(h)
    /\ lastOp' = [op |-> "update", dt |-> dt]
    /\ UNCHANGED <<isPaused, sinceHit>>

\* The calls of update() explored: frames of DtSet with hands, long frames
\* of BigDtSet without; as in gameLoop (part_000:729-786) the wall clock has
\* advanced by the frame's dt since the previous call.
Update ==
    \/ \E dt \in DtSet : UpdateIdle(dt) /\ UNCHANGED outerVars
    \/ \E dt \in DtSet \cup BigDtSet : UpdateExpire(dt, dt, MaxElapsed) /\ UNCHANGED outerVars
    \/ \E dt \in DtSet :
          /\ UpdateRunning(dt, dt, RollDraws, CountDraws, TRUE, MaxId, MaxElapsed)
          /\ UNCHANGED outerVars
    \/ \E dt \in BigDtSet :
          /\ UpdateRunning(dt, dt, RollDraws, CountDraws, FALSE, MaxId, MaxElapsed)
          /\ UNCHANGED outerVars

\* variant: reset() without isGameOver = false
ResetKeepsGameOver ==
    /\ score' = 0 /\ combo' = 0 /\ bestCombo' = 0
    /\ comboTimer' = 0
    /\ isPaused' = FALSE /\ elapsed' = 0
    /\ timeRemaining' = InitialTime
    /\ spawnInterval' = BaseSpawnInterval /\ spawnTimer' = 0
    /\ bombChance' = BaseBombChance /\ nextId' = 0
    /\ objects' = <<>>
    /\ lastOp' = [op |-> "reset", dt |-> 0]
    /\ frameInfo' = NoFrame /\ events' = <<>> /\ hitLog' = <<>>
    /\ UNCHANGED <<isGameOver, recentHits, sinceHit>>

\* variant: reset() without bestCombo = 0
ResetKeepsBestCombo ==
    /\ score' = 0 /\ combo' = 0
    /\ comboTimer' = 0 /\ isGameOver' = FALSE
    /\ isPaused' = FALSE /\ elapsed' = 0
    /\ timeRemaining' = InitialTime
    /\ spawnInterval' = BaseSpawnInterval /\ spawnTimer' = 0
    /\ bombChance' = BaseBombChance /\ nextId' = 0
    /\ objects' = <<>>
    /\ lastOp' = [op |-> "reset", dt |-> 0]
    /\ frameInfo' = NoFrame /\ events' = <<>> /\ hitLog' = <<>>
    /\ UNCHANGED <<bestCombo, recentHits, sinceHit>>

\* reset() (part_000:50-58)
Reset ==
    /\ score' = 0 /\ combo' = 0 /\ bestCombo' = 0
    /\ comboTimer' = 0 /\ isGameOver' = FALSE
    /\ isPaused' = FALSE /\ elapsed' = 0
    /\ timeRemaining' = InitialTime
    /\ spawnInterval' = BaseSpawnInterval /\ spawnTimer' = 0
    /\ bombChance' = BaseBombChance /\ nextId' = 0
    /\ objects' = <<>>
    /\ lastOp' = [op |-> "reset", dt |-> 0]
    /\ frameInfo' = NoFrame /\ events' = <<>> /\ hitLog' = <<>>
    /\ UNCHANGED <<recentHits, sinceHit>>

\* togglePause (part_000:870-886), its effect on the engine
TogglePause ==
    /\ isPaused' = IF isGameOver THEN isPaused ELSE ~isPaused
    /\ lastOp' = [op |-> "togglePause", dt |-> 0]
    /\ frameInfo' = NoFrame /\ events' = <<>> /\ hitLog' = <<>>
    /\ UNCHANGED <<score, combo, bestCombo, comboTimer, isGameOver, elapsed,
                   timeRemaining, spawnInterval, spawnTimer, bombChance, objects,
                   nextId, recentHits, sinceHit>>

\* wall-clock time passes between two calls: one step of the clock
ClockTick ==
    /\ recentHits' = Older(recentHits, ClockStep)
    /\ recentHits' # recentHits
    /\ lastOp' = [op |-> "clock", dt |-> 0]
    /\ frameInfo' = NoFrame /\ events' = <<>> /\ hitLog' = <<>>
    /\ UNCHANGED <<engineVars, nextId, sinceHit>>

\* The engine driven directly, as are the collision system and _splitFruit in
\* the specifications below: the application's state is left alone.
Next ==
    \/ Update
    \/ Reset /\ UNCHANGED outerVars
    \/ TogglePause /\ UNCHANGED outerVars
    \/ ClockTick /\ UNCHANGED outerVars

Spec == Init /\ [][Next]_vars


---------------------------------------------------------------------------
(* CollisionSystem on its own: checkAll() called on a fixed list of objects *)
(* that do not move, two live and one fading, with the wall clock advancing *)
(* between the calls in steps of TickSet ms.                                *)

CollObjects ==
    <<[id |-> 1, x |-> 300, y |-> 500, radius |-> 30, fading |-> FALSE],
      [id |-> 2, x |-> 500, y |-> 500, radius |-> 30, fading |-> TRUE],
      [id |-> 3, x |-> 700, y |-> 500, radius |-> 30, fading |-> FALSE]>>
CollHands ==
    {NoHands,
     [left |-> FastHandOn(CollObjects[1]), right |-> NoHand],
     [left |-> NoHand, right |-> FastHandOn(CollObjects[3])],
     [left |-> FastHandOn(CollObjects[3]), right |-> FastHandOn(CollObjects[1])],
     [left |-> SlowHandOn(CollObjects[1]), right |-> FastHandOn(CollObjects[2])]}
TickSet == {49, 50, 51}

\* the ids of the live objects of objs that a hand of the snapshot collides with
Overlapped(hands, objs) ==
    {objs[k].id : k \in {i \in 1..Len(objs) :
                            ~objs[i].fading /\ FirstSide(hands, objs[i]) # "none"}}

\* per reported hit: the id, and how long ago the id was last reported
\* (-1: never)
ReportLog(hits, objs, since) ==
    [j \in 1..Len(hits) |->
        [id |-> objs[hits[j].object].id, kind |-> "report", side |-> hits[j].side,
         since |-> IF objs[hits[j].object].id \in DOMAIN since
                   THEN since[objs[hits[j].object].id] ELSE -1]]
ReportedIds(hits, objs) == {objs[hits[j].object].id : j \in 1..Len(hits)}

\* checkAll(hands, CollObjects) (collisionSystem.js:50-75)
CheckAllCall(hands) ==
    /\ \E res \in {CheckAll(hands, CollObjects, recentHits)} :
          /\ recentHits' = res.recentHits
          /\ hitLog' = ReportLog(res.hits, CollObjects, sinceHit)
          /\ sinceHit' = Reported(sinceHit, ReportedIds(res.hits, CollObjects))
          /\ frameInfo' = [NoFrame EXCEPT !.hits =
                              [j \in 1..Len(res.hits) |->
                                  [id |-> CollObjects[res.hits[j].object].id,
                                   side |-> res.hits[j].side]]]
    /\ lastOp' = [op |-> "checkAll", dt |-> 0,
                  over |-> Overlapped(hands, CollObjects)]
    /\ events' = <<>>
    /\ UNCHANGED <<engineVars, nextId>>

\* the wall clock advances by d ms between two calls
Tick(d) ==
    /\ recentHits' = Older(recentHits, d)
    /\ sinceHit' = Older(sinceHit, d)
    /\ sinceHit' # sinceHit
    /\ lastOp' = [op |-> "clock", dt |-> 0]
    /\ frameInfo' = NoFrame /\ events' = <<>> /\ hitLog' = <<>>
    /\ UNCHANGED <<engineVars, nextId>>

NextColl ==
    \/ \E hands \in CollHands : CheckAllCall(hands) /\ UNCHANGED outerVars
    \/ \E d \in TickSet : Tick(d) /\ UNCHANGED outerVars

SpecColl == Init /\ [][NextColl]_vars

---------------------------------------------------------------------------
(* checkAll() called with any snapshot: per side a hand that is visible or  *)
(* not, at rest, just below or at the minimum slice speed or fast, on top   *)
(* of an object or just past its rim (SpecHands), or no entry for the side  *)
(* at all (SpecPartial).                                                    *)

\* a hand as _updateHandData leaves it (part_000:532-543): speed is the norm
\* of the velocity, here (0, v); an invisible hand keeps its last data
HandAt(px, py, v, vis) ==
    [x |-> px, y |-> py, vx |-> 0, vy |-> v, speed |-> v, visible |-> vis]
SpeedSet == {0, 299, 300, 1200}
\* on top of object 1, and past its rim by 2/1000 after a downward sweep
SpotSet == {<<300, 500>>, <<300, 582>>}

\* hands[side] of a snapshot without an entry for the side: undefined
Missing == [undefined |-> TRUE]
IsMissing(hand) == "visible" \notin DOMAIN hand

LeftHands ==
    {HandAt(p[1], p[2], v, vis) : p \in SpotSet, v \in SpeedSet, vis \in BOOLEAN}
RightHands == {NoHand, FastHandOn(CollObjects[1]), FastHandOn(CollObjects[3])}
Snapshots == [left : LeftHands, right : RightHands]
PartialSnapshots ==
    [left : LeftHands \cup {Missing}, right : RightHands \cup {Missing}]

\* the loop over the sides (collisionSystem.js:65-71) is entered for obj
Reaches(obj, recent) == ~obj.fading /\ obj.id \notin DOMAIN recent

\* checkCollision(hand, obj) with hand undefined throws a TypeError at
\* !hand.visible (collisionSystem.js:14): the left side is tested first, the
\* right side only when the left hand did not collide
Throws(hands, obj) ==
    IF IsMissing(hands.left) THEN TRUE
    ELSE IF CheckCollision(hands.left, obj) THEN FALSE
    ELSE IsMissing(hands.right)

\* the loop of checkAll (collisionSystem.js:59-73) from object k on, for a
\* snapshot that may lack a side.  An exception ends the call: nothing is
\* returned, and the cache keeps the stamps already set.
RECURSIVE CheckFromOrThrow(_, _, _, _)
CheckFromOrThrow(st, hands, objs, k) ==
    IF k > Len(objs)
    THEN [hits |-> st.hits, recentHits |-> st.recentHits, threw |-> FALSE]
    ELSE IF Reaches(objs[k], st.recentHits) /\ Throws(hands, objs[k])
    THEN [hits |-> <<>>, recentHits |-> st.recentHits, threw |-> TRUE]
    ELSE CheckFromOrThrow(IF Reaches(objs[k], st.recentHits)
                          THEN CheckOne(st, hands, objs[k], k,
                                        FirstSide(hands, objs[k]))
                          ELSE st,
                          hands, objs, k + 1)

\* checkAll (collisionSystem.js:50-75): [hits, recentHits, threw]
CheckAllOrThrow(hands, objs, recent) ==
    CheckFromOrThrow([hits |-> <<>>, recentHits |-> PruneCooldowns(recent)],
                     hands, objs, 1)

\* checkAll(hands, CollObjects) for any snapshot; lastOp keeps the snapshot,
\* whether the call threw, and the ids in the cache when it was made
CheckHands(hands) ==
    /\ \E res \in {CheckAllOrThrow(hands, CollObjects, recentHits)} :
          /\ recentHits' = res.recentHits
          /\ hitLog' = ReportLog(res.hits, CollObjects, sinceHit)
          /\ sinceHit' = Reported(sinceHit, ReportedIds(res.hits, CollObjects))
          /\ frameInfo' = [NoFrame EXCEPT !.hits =
                              [j \in 1..Len(res.hits) |->
                                  [id |-> CollObjects[res.hits[j].object].id,
                                   side |-> res.hits[j].side]]]
          /\ lastOp' = [op |-> "checkAll", dt |-> 0, hands |-> hands,
                        threw |-> res.threw,
                        cooling |-> DOMAIN PruneCooldowns(recentHits)]
    /\ events' = <<>>
    /\ UNCHANGED <<engineVars, nextId>>

NextHands ==
    \/ \E hands \in Snapshots : CheckHands(hands) /\ UNCHANGED outerVars
    \/ Tick(ClockStep) /\ UNCHANGED outerVars

SpecHands == Init /\ [][NextHands]_vars

NextPartial ==
    \/ \E hands \in PartialSnapshots : CheckHands(hands) /\ UNCHANGED outerVars
    \/ Tick(ClockStep) /\ UNCHANGED outerVars

SpecPartial == Init /\ [][NextPartial]_vars

---------------------------------------------------------------------------
(* _splitFruit() on its own: fruits are spawned and split by hands of any   *)
(* velocity, among them a hand at rest and hands at and around the speed of *)
(* 0.01 below which the split takes its default direction.                  *)

VelocitySet == {<<0, 0>>, <<5, 5>>, <<10, 0>>, <<11, 0>>, <<0, 300>>, <<300, 0>>}
SplitHands ==
    {[x |-> 0, y |-> 0, vx |-> v[1], vy |-> v[2],
      speed |-> ISqrt(v[1] * v[1] + v[2] * v[2]), visible |-> TRUE] :
         v \in VelocitySet}

\* _spawnObject() (part_000:63-102) making a fruit
SpawnCall ==
    /\ \E d \in DrawsOf({900}) :
          \E h \in {SpawnObject(Engine, d)} :
             /\ h.nextId <= MaxId
             /\ Store(h)
    /\ lastOp' = [op |-> "spawn", dt |-> 0]
    /\ UNCHANGED <<isPaused, sinceHit>>

\* _splitFruit(objects[k], hand) (part_000:107-159) on a fruit that is not
\* fading; frameInfo.spawned holds the ids of the pieces it returned, lastOp
\* the hand and the fruit as it was
SplitCall(k, hand) ==
    /\ IsLive(objects[k])
    /\ \E h \in {SplitFruit(Engine, k, hand)} :
          /\ h.nextId <= MaxId
          /\ Store([h EXCEPT !.spawned = h.pieces])
    /\ lastOp' = [op |-> "split", dt |-> 0, hand |-> hand, parent |-> objects[k]]
    /\ UNCHANGED <<isPaused, sinceHit>>

NextSplit ==
    \/ SpawnCall /\ UNCHANGED outerVars
    \/ \E k \in 1..Len(objects) : \E hand \in SplitHands :
          SplitCall(k, hand) /\ UNCHANGED outerVars

SpecSplit == Init /\ [][NextSplit]_vars

---------------------------------------------------------------------------
(* The application's game loop (part_000:729-897): the browser runs, at     *)
(* each animation frame, the gameLoop callbacks requested before it, one    *)
(* after the other and with the same timestamp; clicks and keys are handled *)
(* between frames.  The camera and the sounds are loaded, so startGame runs *)
(* to its end without awaiting.  Frames come at least 50 ms apart, which    *)
(* gameLoop clamps to dt = 0.05; no hand is visible and every spawn is a    *)
(* fruit.                                                                   *)

\* dt of a callback (part_000:733-734): the first callback to get there in a
\* frame sets lastTime to the frame's timestamp, the next ones find dt = 0
FrameDt == IF frameCalls = 0 THEN MaxFrameDt ELSE 0

\* startGame (part_000:813-858), from the start screen or from the game-over
\* screen, which shows 600 ms after the game ended (part_000:865-867)
StartGame ==
    /\ firing = 0
    /\ ~startScreenHidden \/ (isGameOver /\ queued = 0)
    /\ Reset
    /\ running' = TRUE
    /\ startScreenHidden' = TRUE
    /\ queued' = queued + 1
    /\ UNCHANGED <<firing, frameCalls, peerVars, histVars, poolVars>>

\* togglePause (part_000:870-886) from the pause button, the resume button
\* or the keys (part_000:891-899)
PauseKey ==
    /\ firing = 0
    /\ startScreenHidden
    /\ queued < MaxQueued
    /\ TogglePause
    /\ running' = (IF isGameOver THEN running ELSE isPaused)
    /\ queued' = (IF ~isGameOver /\ isPaused THEN queued + 1 ELSE queued)
    /\ UNCHANGED <<startScreenHidden, firing, frameCalls, peerVars, histVars, poolVars>>

\* an animation frame begins: the callbacks requested so far are the ones it
\* runs
BeginFrame ==
    /\ firing = 0 /\ queued > 0
    /\ firing' = queued /\ queued' = 0 /\ frameCalls' = 0
    /\ lastOp' = [op |-> "frame", dt |-> 0]
    /\ frameInfo' = NoFrame /\ events' = <<>> /\ hitLog' = <<>>
    /\ UNCHANGED <<engineVars, nextId, recentHits, sinceHit, running,
                   startScreenHidden, peerVars, histVars, poolVars>>

\* gameLoop when running is false (part_000:730)
GameLoopIdle ==
    /\ firing > 0 /\ ~running
    /\ firing' = firing - 1
    /\ lastOp' = [op |-> "gameLoop", dt |-> 0]
    /\ frameInfo' = NoFrame /\ events' = <<>> /\ hitLog' = <<>>
    /\ UNCHANGED <<engineVars, nextId, recentHits, sinceHit, running,
                   startScreenHidden, queued, frameCalls, peerVars, histVars, poolVars>>

\* gameLoop when running, around its call of update(): the next callback is
\* requested (part_000:731), and showGameOver clears running when the engine
\* is over after the call (part_000:807-809, 861)
Driven ==
    /\ firing > 0 /\ running
    /\ firing' = firing - 1
    /\ queued' = queued + 1
    /\ frameCalls' = frameCalls + 1
    /\ running' = ~isGameOver'
    /\ UNCHANGED <<startScreenHidden, peerVars, histVars, poolVars>>

\* gameLoop when running (part_000:729-810).  running is only true while the
\* engine is neither paused nor over.
GameLoop ==
    \/ /\ UpdateRunning(FrameDt, FrameDt, {900}, CountDraws, FALSE, LoopIds,
                        MaxElapsed)
       /\ Driven
    \/ /\ UpdateExpire(FrameDt, FrameDt, MaxElapsed)
       /\ Driven

NextLoop == StartGame \/ PauseKey \/ BeginFrame \/ GameLoopIdle \/ GameLoop

SpecLoop == Init /\ [][NextLoop]_vars

---------------------------------------------------------------------------
(* A long game: update() called with frames of 20 s, in which every object *)
(* of the batch falls through the screen and is removed, and with frames   *)
(* of no length.  Math.random() makes each object a bomb or a heart and    *)
(* the batch as small or as large as it can be; the hands are on the       *)
(* objects of the batch, so that hearts keep the countdown from expiring   *)
(* while the difficulty ramp runs to its end.  A game may start with       *)
(* frames of 0.7 s, before the first batch is due.                         *)

LongDtSet == {0, 20000}
ShortDtSet == {700}
RampCounts == {0, 999}
\* the smallest draw, in 1/1000, that is no bomb once elapsed is e: a heart
HeartRoll(e) == (RampBombChance(e) + 999) \div 1000

NextRamp ==
    \/ \E dt \in LongDtSet :
          /\ UpdateRunning(dt, dt, {0, HeartRoll(elapsed + dt)}, RampCounts, TRUE,
                           RampIds, RampElapsed)
          /\ UNCHANGED outerVars
    \/ \E dt \in ShortDtSet :
          /\ UpdateRunning(dt, dt, {0, HeartRoll(elapsed + dt)}, RampCounts, FALSE,
                           RampIds, ShortElapsed)
          /\ UNCHANGED outerVars
    \/ \E dt \in LongDtSet : UpdateExpire(dt, dt, RampElapsed) /\ UNCHANGED outerVars
    \/ \E dt \in LongDtSet : UpdateIdle(dt) /\ UNCHANGED outerVars
    \/ Reset /\ UNCHANGED outerVars
    \/ TogglePause /\ UNCHANGED outerVars

SpecRamp == Init /\ [][NextRamp]_vars

---------------------------------------------------------------------------
(* checkCollision() on its own: one object, and hands on a grid of         *)
(* positions inside its circle, on its rim, just past it and away from it, *)
(* at rest relative to the rim or moving towards, along or away from it.   *)
(* The velocities are multiples of 60, so that the position one tick of    *)
(* 1/60 s earlier is on the grid too.                                      *)

SweepObject == CollObjects[1]
SweepVelocities ==
    {<<0, 300>>, <<0, -300>>, <<300, 0>>, <<180, 240>>, <<0, 1200>>, <<0, 6000>>,
     <<0, 240>>}
SweepXs == {300, 379, 380, 381}
SweepYs == {500, 550, 579, 580, 581, 585, 586, 600, 700, 419, 415}
SweepHands ==
    {[x |-> px, y |-> py, vx |-> v[1], vy |-> v[2],
      speed |-> ISqrt(v[1] * v[1] + v[2] * v[2]), visible |-> vis] :
         px \in SweepXs, py \in SweepYs, v \in SweepVelocities, vis \in BOOLEAN}

\* checkCollision(hand, SweepObject) (collisionSystem.js:13-28)
CheckCollisionCall(hand) ==
    /\ lastOp' = [op |-> "checkCollision", dt |-> 0, hand |-> hand,
                  hit |-> CheckCollision(hand, SweepObject)]
    /\ frameInfo' = NoFrame /\ events' = <<>> /\ hitLog' = <<>>
    /\ UNCHANGED <<engineVars, nextId, recentHits, sinceHit>>

NextSweep == \E hand \in SweepHands : CheckCollisionCall(hand) /\ UNCHANGED outerVars

SpecSweep == Init /\ [][NextSweep]_vars

---------------------------------------------------------------------------
(* Two engines of one module.  The calls on the first are update() and     *)
(* reset() as above; of the second, the peer, the model keeps what it      *)
(* shares with the first, the module-level id counter, and the ids in its  *)
(* live set.  JavaScript runs one call at a time: the calls on the two     *)
(* engines interleave, their steps do not.                                 *)

TwoDtSet == {600}
TwoElapsedSec == 4
TwoElapsed == TwoElapsedSec * TimeUnit
TwoIds == 3
MaxPeer == 3

\* _spawnObject of the peer (part_000:63-102), in its update()
PeerSpawn ==
    /\ nextId < TwoIds /\ Len(peerIds) < MaxPeer
    /\ nextId' = generateId(Engine)
    /\ peerIds' = Append(peerIds, generateId(Engine))
    /\ lastOp' = [op |-> "peer.spawn", dt |-> 0]
    /\ frameInfo' = NoFrame /\ events' = <<>> /\ hitLog' = <<>>
    /\ UNCHANGED <<engineVars, recentHits, sinceHit, loopVars, histVars, poolVars>>

\* _splitFruit of the peer (part_000:107-159) on one of its objects: two
\* pieces are pushed
PeerSplit ==
    /\ peerIds # <<>>
    /\ nextId + 1 < TwoIds /\ Len(peerIds) + 1 < MaxPeer
    /\ nextId' = generateId(Engine) + 1
    /\ peerIds' = peerIds \o <<generateId(Engine), generateId(Engine) + 1>>
    /\ lastOp' = [op |-> "peer.split", dt |-> 0]
    /\ frameInfo' = NoFrame /\ events' = <<>> /\ hitLog' = <<>>
    /\ UNCHANGED <<engineVars, recentHits, sinceHit, loopVars, histVars, poolVars>>

\* Cleanup of the peer (part_000:290-297): the object at place k is spliced out
PeerRemove(k) ==
    /\ peerIds' = [j \in 1..(Len(peerIds) - 1) |->
                      IF j < k THEN peerIds[j] ELSE peerIds[j + 1]]
    /\ lastOp' = [op |-> "peer.remove", dt |-> 0]
    /\ frameInfo' = NoFrame /\ events' = <<>> /\ hitLog' = <<>>
    /\ UNCHANGED <<engineVars, nextId, recentHits, sinceHit, loopVars, histVars, poolVars>>

\* reset() of the peer (part_000:50-58)
PeerReset ==
    /\ nextId' = 0
    /\ peerIds' = <<>>
    /\ lastOp' = [op |-> "peer.reset", dt |-> 0]
    /\ frameInfo' = NoFrame /\ events' = <<>> /\ hitLog' = <<>>
    /\ UNCHANGED <<engineVars, recentHits, sinceHit, loopVars, histVars, poolVars>>


NextTwo ==
    \/ \E dt \in TwoDtSet :
          /\ UpdateRunning(dt, dt, {900}, CountDraws, TRUE, TwoIds, TwoElapsed)
          /\ UNCHANGED outerVars
    \/ Reset /\ UNCHANGED outerVars
    \/ PeerSpawn
    \/ PeerSplit
    \/ \E k \in 1..Len(peerIds) : PeerRemove(k)
    \/ PeerReset

SpecTwo == Init /\ [][NextTwo]_vars

---------------------------------------------------------------------------
(* The engine driven faster than real time, as by a test or a simulation   *)
(* that steps it with a fixed dt: update() is called again before the      *)
(* clock of performance.now() has advanced; the clock advances in steps    *)
(* between calls.                                                          *)

FastDtSet == {0, 600}
FastElapsedSec == 4
FastElapsed == FastElapsedSec * TimeUnit
FastIds == 5

NextFast ==
    \/ \E dt \in FastDtSet :
          /\ UpdateRunning(dt, 0, {900}, CountDraws, TRUE, FastIds, FastElapsed)
          /\ UNCHANGED outerVars
    \/ Reset /\ UNCHANGED outerVars
    \/ ClockTick /\ UNCHANGED outerVars

SpecFast == Init /\ [][NextFast]_vars

---------------------------------------------------------------------------
(* The claims *)

Running == ~isGameOver /\ ~isPaused
ObjectIds(objs) == {objs[k].id : k \in 1..Len(objs)}

\* C1: in every state reachable by reset(), pause toggles and update(dt, hands)
\* with dt >= 0, 0 <= timeRemaining <= maxTime and combo >= 0.
C1_TimerAndComboInRange ==
    /\ 0 <= timeRemaining
    /\ timeRemaining <= maxTime
    /\ combo >= 0
\* a bomb was hit with less than the penalty left on the timer, which stands at 0
C1_Witness ==
    /\ timeRemaining = 0
    /\ \E i \in 1..Len(hitLog) :
          hitLog[i].kind = "bomb" /\ hitLog[i].timeBefore < TimePenalty

\* C2: update() called while isPaused or isGameOver returns the empty frame,
\* changes no field of the engine (score, combo, bestCombo, comboTimer,
\* timeRemaining, elapsed, spawnTimer, spawnInterval, bombChance, the flags,
\* the objects and their position and fade state) and fires no callback.
C2_IdleUpdateChangesNothing ==
    [][((isPaused \/ isGameOver) /\ lastOp'.op = "update")
          => /\ frameInfo' = NoFrame
             /\ events' = <<>>
             /\ UNCHANGED <<engineVars, nextId>>]_vars
\* update() has just been called on a paused engine with objects in flight
\* and a combo running
C2_Witness ==
    /\ lastOp.op = "update" /\ isPaused
    /\ Len(objects) > 0 /\ combo > 0 /\ comboTimer > 0

\* C3: once isGameOver is true no update() and no pause toggle makes it false;
\* reset() does.
C3_GameOverLatch ==
    [][isGameOver => IF lastOp'.op = "reset" THEN ~isGameOver' ELSE isGameOver']_vars
\* the engine is still over after a pause toggle and an update() in GameOver
C3_Witness ==
    /\ isGameOver /\ lastOp.op = "update" /\ frameInfo = NoFrame /\ events = <<>>

\* C4: update(dt, hands) of a running engine with dt >= timeRemaining sets
\* timeRemaining to 0 and isGameOver, and does nothing else in that frame:
\* nothing spawned, no object moved, hit or removed, combo and score as before.
C4_ExpiryEndsTheFrame ==
    [][(Running /\ lastOp'.op = "update" /\ lastOp'.dt >= timeRemaining)
          => /\ timeRemaining' = 0 /\ isGameOver'
             /\ frameInfo' = NoFrame /\ hitLog' = <<>>
             /\ objects' = objects /\ nextId' = nextId
             /\ combo' = combo /\ score' = score]_vars
\* the countdown has just run out in a frame with objects in flight: the only
\* callback was onTimeChange, with the time before the clamp
C4_Witness ==
    /\ isGameOver /\ timeRemaining = 0 /\ lastOp.op = "update"
    /\ Len(objects) > 0 /\ score > 0
    /\ Len(events) = 1 /\ events[1].cb = "onTimeChange" /\ events[1].arg <= 0

\* the object of the current objects with the given id
ObjectOf(id) == objects[CHOOSE k \in 1..Len(objects) : objects[k].id = id]
SpawnedIds == {frameInfo.spawned[j] : j \in 1..Len(frameInfo.spawned)}
HitsOf(kind) == {i \in 1..Len(hitLog) : hitLog[i].kind = kind}
PieceIds(p) == {p.pieces[j] : j \in 1..Len(p.pieces)}

\* what C5 says of one resolved fruit hit, p being its probe
SplitsAsClaimed(p) ==
    IF p.generation < 2
    THEN /\ Len(p.pieces) = 2 /\ Cardinality(PieceIds(p)) = 2
         /\ p.countAfter = p.countBefore + 2
         /\ PieceIds(p) \subseteq SpawnedIds
         /\ PieceIds(p) \subseteq ObjectIds(objects)
         /\ \A id \in PieceIds(p) :
               /\ ObjectOf(id).generation = p.generation + 1
               /\ 10 * ObjectOf(id).radius <= 7 * p.radius
               /\ 7 * p.radius < 10 * ObjectOf(id).radius + 10
    ELSE /\ p.pieces = <<>>
         /\ p.countAfter = p.countBefore
         /\ p.id \in p.fadingAfter

\* C5: a hit on a fruit of generation g < 2 makes exactly 2 pieces of
\* generation g + 1 and of 0.7 times its radius (to the resolution of the
\* model), both pushed on objects and listed in the frame's spawned; a hit on a
\* fruit of generation 2 makes none and marks the fruit fading.
C5_SplitMakesTwoOrNone ==
    \A i \in HitsOf("fruit") : SplitsAsClaimed(hitLog[i])
\* a fruit of generation 2 has just been hit: its parent and grandparent were
\* split before it
C5_Witness ==
    \E i \in HitsOf("fruit") : hitLog[i].generation = 2 /\ ~hitLog[i].wasFading

\* C6: resolving a bomb hit sets timeRemaining to max(0, timeRemaining - 10),
\* marks the bomb fading and marks fading every other object that was active
\* and not fading, whatever combo is.
C6_BombPenaltyAndClear ==
    \A i \in HitsOf("bomb") :
        /\ hitLog[i].timeAfter =
               IF hitLog[i].timeBefore >= 10 * TimeUnit
               THEN hitLog[i].timeBefore - 10 * TimeUnit ELSE 0
        /\ hitLog[i].id \in hitLog[i].fadingAfter
        /\ hitLog[i].liveBefore \subseteq hitLog[i].fadingAfter
\* a bomb has just been hit while a combo ran and two other objects were live,
\* both ahead of the bomb in objects
C6_Witness ==
    \E i \in HitsOf("bomb") :
        /\ hitLog[i].comboBefore > 0
        /\ \E a, b \in hitLog[i].liveBefore : a < b /\ b < hitLog[i].id

\* C7: resolving a heart hit sets timeRemaining to min(maxTime, timeRemaining
\* + 10) and marks the heart fading.
C7_HeartBonusCapped ==
    \A i \in HitsOf("heart") :
        /\ hitLog[i].timeAfter =
               IF hitLog[i].timeBefore + 10 * TimeUnit <= 60 * TimeUnit
               THEN hitLog[i].timeBefore + 10 * TimeUnit ELSE 60 * TimeUnit
        /\ hitLog[i].id \in hitLog[i].fadingAfter
\* a heart has just been hit with more than 50 s on the timer, which stands at 60
C7_Witness ==
    \E i \in HitsOf("heart") :
        hitLog[i].timeBefore > 50 * TimeUnit /\ hitLog[i].timeAfter = 60 * TimeUnit

\* C8: a resolved fruit hit increments combo by 1 and then adds
\* 10 * (generation + 1) * max(1, combo) to score, combo being the value after
\* the increment and generation that of the fruit hit.
C8_ScorePerSlice ==
    \A i \in HitsOf("fruit") :
        /\ hitLog[i].comboAfter = hitLog[i].comboBefore + 1
        /\ hitLog[i].scoreAfter = hitLog[i].scoreBefore
               + 10 * (hitLog[i].generation + 1)
                    * (IF hitLog[i].comboAfter >= 1 THEN hitLog[i].comboAfter ELSE 1)
\* a piece has just been hit as the third slice of a combo
C8_Witness ==
    \E i \in HitsOf("fruit") :
        hitLog[i].generation >= 1 /\ hitLog[i].comboAfter >= 3

\* C9: an id that checkAll() reported is not reported again by any later call
\* made before the cooldown window of 150 ms has elapsed since that report,
\* even when a visible, fast hand is on the object at every call.
C9_NoReportWithinCooldown ==
    \A i \in HitsOf("report") : hitLog[i].since = -1 \/ hitLog[i].since >= 150
\* checkAll() has just been called with a fast hand on object 1, 149 ms after
\* it reported object 1, and reported nothing
C9_Witness ==
    /\ lastOp.op = "checkAll" /\ 1 \in lastOp.over
    /\ hitLog = <<>>
    /\ 1 \in DOMAIN sinceHit /\ sinceHit[1] = 149

\* an object that is past the fade duration or, not fading, past the bounds
\* of the screen: one that update() removes without moving it any further
PastRemoval(o) ==
    IF o.fading THEN o.fadeTimer > 600
    ELSE o.y > 1200 \/ o.x < -150 \/ o.x > 1150
\* this step is update(0, hands) on a running engine
ZeroFrame == Running /\ lastOp'.op = "update" /\ lastOp'.dt = 0
\* this step changes neither score, combo nor timeRemaining and removes only
\* objects that were past removal
NothingButDueRemovals ==
    /\ score' = score /\ combo' = combo /\ timeRemaining' = timeRemaining
    /\ \A k \in 1..Len(objects) :
          objects[k].id \notin ObjectIds(objects') => PastRemoval(objects[k])

\* C10 as stated: update(0, hands) on a reachable running engine, whatever the
\* hands, leaves score, combo and timeRemaining unchanged and removes no object
\* other than those already past the bounds or the fade duration.
C10_ZeroFrameAnyHands == [][ZeroFrame => NothingButDueRemovals]_vars

\* C10 amended: update(0, hands) on a reachable running engine in which the
\* hands hit nothing leaves score, combo and timeRemaining unchanged and
\* removes no object other than those already past the bounds or the fade
\* duration.
C10_ZeroFrameWithoutHit ==
    [][(ZeroFrame /\ frameInfo'.hits = <<>>) => NothingButDueRemovals]_vars
\* update(0, hands) has just returned without a hit on a running engine with
\* a combo running, a live object and a fading one
C10_Witness ==
    /\ Running /\ lastOp = [op |-> "update", dt |-> 0]
    /\ frameInfo.hits = <<>>
    /\ combo > 0 /\ comboTimer < comboWindow
    /\ \E j, k \in 1..Len(objects) : objects[j].fading /\ ~objects[k].fading

\* the number of fruit hits among the first n probes of log
FruitHits(log, n) == Cardinality({i \in 1..n : log[i].kind = "fruit"})
\* this step is update(dt, hands) on a running engine whose combo runs and
\* whose comboTimer is at most dt
DecayFrame ==
    Running /\ lastOp'.op = "update" /\ combo > 0 /\ comboTimer <= lastOp'.dt
\* combo was reset before the hits: the i-th fruit hit of the frame leaves
\* combo = i, and the frame ends with combo = the number of its fruit hits
CountedFromZero ==
    /\ combo' = FruitHits(hitLog', Len(hitLog'))
    /\ \A i \in 1..Len(hitLog') :
          hitLog'[i].kind = "fruit" => hitLog'[i].comboAfter = FruitHits(hitLog', i)

\* C11 as stated: in every update(dt, hands) of a running engine with combo > 0
\* and comboTimer <= dt, combo is reset to 0 before the hits are resolved: with
\* no hit the frame ends with combo = 0, a fruit hit leaves combo = 1.
C11_DecayBeforeHitsAnyFrame == [][DecayFrame => CountedFromZero]_vars

\* C11 amended: the same, for the frames in which the countdown does not run
\* out (dt < timeRemaining).
C11_DecayBeforeHits ==
    [][(DecayFrame /\ lastOp'.dt < timeRemaining) => CountedFromZero]_vars
\* update() was called with a combo running and no more than dt left on
\* comboTimer, and a fruit hit of that frame counted from 0 and left combo = 1
C11_Witness ==
    /\ lastOp.op = "update" /\ combo = 1
    /\ \E i \in HitsOf("fruit") :
          /\ hitLog[i].comboAtCall >= 1
          /\ hitLog[i].comboTimerAtCall <= lastOp.dt
          /\ hitLog[i].comboBefore = 0 /\ hitLog[i].comboAfter = 1

\* C12: reset(), called in any reachable state, leaves score, combo, bestCombo,
\* comboTimer, elapsed and spawnTimer at 0, timeRemaining at 30 s, spawnInterval
\* at 1.5 s, bombChance at 0.12, isGameOver and isPaused false and no object.
C12_ResetRestoresSession ==
    lastOp.op = "reset" =>
        /\ score = 0 /\ combo = 0 /\ bestCombo = 0 /\ comboTimer = 0
        /\ elapsed = 0 /\ spawnTimer = 0
        /\ timeRemaining = 30 * TimeUnit
        /\ spawnInterval = 1500 * TimeUnit
        /\ bombChance = 120000
        /\ ~isGameOver /\ ~isPaused
        /\ objects = <<>>
\* reset() has just been called on an engine that had resolved a hit: the
\* cooldown cache still holds the id
C12_Witness == lastOp.op = "reset" /\ recentHits # <<>>

\* C13: score is never negative and no step other than reset() decreases it;
\* bestCombo is the high-water mark of combo: reset() sets it to 0, every other
\* step leaves it at the larger of its old value and the new combo, no probe
\* of the frame shows a combo above it, and so bestCombo >= combo.
C13_ScoreAndBestCombo ==
    [][/\ score >= 0 /\ score' >= 0
       /\ bestCombo >= combo /\ bestCombo' >= combo'
       /\ IF lastOp'.op = "reset"
          THEN bestCombo' = 0
          ELSE /\ score' >= score
               /\ bestCombo' = (IF combo' > bestCombo THEN combo' ELSE bestCombo)
               /\ \A i \in 1..Len(hitLog') :
                     hitLog'[i].kind = "fruit" => hitLog'[i].comboAfter <= bestCombo']_vars
\* the combo of the session has just run out in an update(): combo is back at
\* 0, bestCombo remembers it and score keeps its points
C13_Witness ==
    /\ lastOp.op = "update" /\ Running
    /\ combo = 0 /\ comboTimer < 0 /\ bestCombo >= 1 /\ score > 0

\* C14: a hand that is not visible or whose speed is below the minimum slice
\* speed of 0.3 registers no hit, wherever it is and however it moves: every
\* hit checkAll() returns carries a side whose hand is visible and has
\* speed >= 0.3.
C14_IdleHandNeverHits ==
    lastOp.op = "checkAll" =>
        \A j \in 1..Len(frameInfo.hits) :
            /\ lastOp.hands[frameInfo.hits[j].side].visible
            /\ lastOp.hands[frameInfo.hits[j].side].speed >= 300
\* checkAll() has just returned no hit for a visible left hand that lies
\* exactly on top of object 1 with speed 0.299, object 1 being live and out
\* of cooldown
C14_Witness ==
    /\ lastOp.op = "checkAll" /\ ~lastOp.threw
    /\ lastOp.hands.left = HandAt(CollObjects[1].x, CollObjects[1].y, 299, TRUE)
    /\ lastOp.hands.right = NoHand
    /\ 1 \notin lastOp.cooling
    /\ frameInfo.hits = <<>>

\* the snapshot with every missing or invisible side replaced by no hand
AsPresent(hand) ==
    IF IsMissing(hand) THEN NoHand
    ELSE IF hand.visible THEN hand ELSE NoHand
WithoutAbsent(hands) ==
    [left |-> AsPresent(hands.left), right |-> AsPresent(hands.right)]
\* the hits checkAll() returns for the snapshot hands when the ids of the set
\* cooling are in cooldown, as <<id, side>>
HitsFor(hands, cooling) ==
    LET res == CheckAll(hands, CollObjects, [i \in cooling |-> 0]).hits
    IN [j \in 1..Len(res) |->
           [id |-> CollObjects[res[j].object].id, side |-> res[j].side]]

\* C15: a side whose hand is missing from the snapshot or invisible counts as
\* no hand: checkAll() raises no exception and returns the hits it returns for
\* the snapshot with that side empty, the other side tested as usual.
C15_AbsentSideIsNoHand ==
    lastOp.op = "checkAll" =>
        /\ ~lastOp.threw
        /\ frameInfo.hits = HitsFor(WithoutAbsent(lastOp.hands), lastOp.cooling)

\* the object of CollObjects with the given id
CollObjectOf(id) == CollObjects[CHOOSE k \in 1..Len(CollObjects) : CollObjects[k].id = id]

\* C16: in one checkAll() call no object appears in two hit records, also when
\* both hands collide with it, and the record of an object carries the side
\* left whenever the left hand collides with it, the side right otherwise.
C16_OneHitPerObjectLeftFirst ==
    lastOp.op = "checkAll" =>
        /\ \A i, j \in 1..Len(frameInfo.hits) :
               frameInfo.hits[i].id = frameInfo.hits[j].id => i = j
        /\ \A j \in 1..Len(frameInfo.hits) :
               frameInfo.hits[j].side =
                   IF CheckCollision(lastOp.hands.left, CollObjectOf(frameInfo.hits[j].id))
                   THEN "left" ELSE "right"
\* checkAll() has just been called with a fast visible hand of either side on
\* top of object 1, out of cooldown, and returned one record, for the left
C16_Witness ==
    /\ lastOp.op = "checkAll"
    /\ lastOp.hands.left = HandAt(CollObjects[1].x, CollObjects[1].y, 1200, TRUE)
    /\ lastOp.hands.right = FastHandOn(CollObjects[1])
    /\ 1 \notin lastOp.cooling
    /\ frameInfo.hits = <<[id |-> 1, side |-> "left"]>>

\* C17: in every reachable state each object of this.objects has active = true,
\* is either fading or not, and has a generation of 0, 1 or 2: no inactive
\* object stays in the live set and no object of generation > 2 is created.
C17_LiveObjectsWellFormed ==
    \A k \in 1..Len(objects) :
        /\ objects[k].active = TRUE
        /\ objects[k].fading \in BOOLEAN
        /\ objects[k].generation \in {0, 1, 2}
\* update() has just removed an object, and the live set holds a piece of
\* generation 2 that was hit and is fading next to one that is not
C17_Witness ==
    /\ lastOp.op = "update" /\ frameInfo.removed # <<>>
    /\ \E j, k \in 1..Len(objects) :
          /\ objects[j].generation = 2 /\ objects[j].fading
          /\ objects[k].generation = 2 /\ ~objects[k].fading

\* the ids of the sequence ids grow strictly
Increasing(ids) == \A i, j \in 1..Len(ids) : i < j => ids[i] < ids[j]
IdsOf(objs) == [k \in 1..Len(objs) |-> objs[k].id]

\* C18: between two reset() calls every object created, by spawn or by split,
\* gets an id above the id of every object created before it: in an update()
\* the ids created grow strictly, all lie above the id counter of before the
\* call, the counter ends at the last of them and never moves back; the ids
\* of the objects of the live set, which keeps the order of creation, grow
\* strictly and so are pairwise distinct.
C18_IdsGrow ==
    [][lastOp'.op # "reset" =>
          /\ nextId' >= nextId
          /\ Increasing(frameInfo'.spawned)
          /\ \A j \in 1..Len(frameInfo'.spawned) :
                nextId < frameInfo'.spawned[j] /\ frameInfo'.spawned[j] <= nextId'
          /\ (nextId' > nextId => nextId' \in SpawnedIds')
          /\ Increasing(IdsOf(objects'))
          /\ \A k \in 1..Len(objects') : objects'[k].id <= nextId']_vars
\* update() has just created three objects, one spawned and two pieces of a
\* split, with an older object in the live set
C18_Witness ==
    /\ lastOp.op = "update" /\ Len(frameInfo.spawned) = 3
    /\ frameInfo.spawned[3] = nextId
    /\ \E k \in 1..Len(objects) : objects[k].id < frameInfo.spawned[1]

\* the hand of the last _splitFruit() was at rest or slower than 0.01
NearlyAtRest(hand) == hand.vx * hand.vx + hand.vy * hand.vy <= 100

\* C19: _splitFruit() of a fruit of generation < 2 with a hand whose velocity
\* has magnitude (near) zero takes the default direction (1, 0): it returns two
\* pieces, at the parent's y and at the parent's x + 0.01 and x - 0.01, each of
\* 0.7 times the parent's radius (to the resolution of the model).
C19_RestingHandSplitsAlongX ==
    (/\ lastOp.op = "split"
     /\ NearlyAtRest(lastOp.hand)
     /\ lastOp.parent.generation < 2)
    => /\ Len(frameInfo.spawned) = 2
       /\ ObjectOf(frameInfo.spawned[1]).x = lastOp.parent.x + 10
       /\ ObjectOf(frameInfo.spawned[2]).x = lastOp.parent.x - 10
       /\ \A j \in 1..2 :
             /\ ObjectOf(frameInfo.spawned[j]).y = lastOp.parent.y
             /\ 10 * ObjectOf(frameInfo.spawned[j]).radius <= 7 * lastOp.parent.radius
             /\ 7 * lastOp.parent.radius < 10 * ObjectOf(frameInfo.spawned[j]).radius + 10
\* a fruit of generation 0 and radius 0.03 has just been split by a hand with
\* velocity (0, 0) into two pieces of radius 0.021
C19_Witness ==
    /\ lastOp.op = "split"
    /\ lastOp.hand.vx = 0 /\ lastOp.hand.vy = 0
    /\ lastOp.parent.generation = 0 /\ lastOp.parent.radius = 30
    /\ Len(frameInfo.spawned) = 2
    /\ \A j \in 1..2 : ObjectOf(frameInfo.spawned[j]).radius = 21

\* C20: whatever the interleaving of animation frames with pause, resume and
\* start or restart, at most one chain of gameLoop callbacks is live: while
\* running, at most one callback is requested or waiting to run, and update()
\* is called at most once in an animation frame.
C20_OneUpdatePerFrame ==
    /\ frameCalls <= 1
    /\ running => queued + firing <= 1

\* the ids of the hits update() returned, in order
HitIds == [j \in 1..Len(frameInfo.hits) |-> frameInfo.hits[j].id]

\* C21: the hits are resolved in detection order, which is the order of the
\* objects; when a bomb hit leaves timeRemaining at 0 the engine is over and
\* that hit is the last one resolved and returned: score, combo, timeRemaining
\* and the id counter stand as that hit left them.
C21_BombAtZeroEndsTheHits ==
    /\ Len(frameInfo.hits) = Len(hitLog)
    /\ \A i \in 1..Len(hitLog) : hitLog[i].id = HitIds[i]
    /\ Increasing(HitIds)
    /\ \A i \in HitsOf("bomb") :
          hitLog[i].timeAfter = 0 =>
              /\ isGameOver
              /\ i = Len(hitLog)
              /\ score = hitLog[i].scoreAfter /\ combo = hitLog[i].comboAfter
              /\ timeRemaining = 0
              /\ nextId = hitLog[i].nextIdAfter
\* a bomb hit has just ended the game in a frame in which checkAll() had
\* reported a second object: it is stamped in the cooldown cache, was cleared
\* by the bomb and is not among the hits returned
C21_Witness ==
    /\ lastOp.op = "update" /\ isGameOver
    /\ Len(hitLog) >= 1
    /\ hitLog[Len(hitLog)].kind = "bomb" /\ hitLog[Len(hitLog)].timeAfter = 0
    /\ \E id \in DOMAIN recentHits :
          /\ recentHits[id] = 0
          /\ \A j \in 1..Len(frameInfo.hits) : frameInfo.hits[j].id # id
          /\ \E k \in 1..Len(objects) :
                /\ objects[k].id = id
                /\ objects[k].fading /\ objects[k].fadeTimer = BombFadeTimer

\* C22: a fading object takes no part in the collision check of an update():
\* the subset handed to checkAll() holds no fading object, and no object that
\* was fading when update() was called is among the hits returned.
C22_FadingNeverHit ==
    [][lastOp'.op = "update" =>
          /\ \A j \in 1..Len(Sliceable(objects)) :
                ~objects[Sliceable(objects)[j]].fading
          /\ \A k \in 1..Len(objects) :
                objects[k].fading =>
                    \A j \in 1..Len(frameInfo'.hits) :
                        frameInfo'.hits[j].id # objects[k].id]_vars
\* update(0.6) has just returned one hit, by the right hand, on an object
\* that is not the first of the live set, and nothing else is in cooldown.
\* The snapshots with a right hand there have a fast left hand on top of an
\* earlier object: all of these have been fading since an earlier frame.
C22_Witness ==
    /\ lastOp = [op |-> "update", dt |-> 600]
    /\ Len(frameInfo.hits) = 1 /\ frameInfo.hits[1].side = "right"
    /\ DOMAIN recentHits = {frameInfo.hits[1].id}
    /\ \E k \in 2..Len(objects) :
          /\ objects[k].id = frameInfo.hits[1].id
          /\ \A i \in 1..(k - 1) :
                objects[i].fading /\ objects[i].fadeTimer = 600

\* this step is an update() of a running engine that goes on past the
\* countdown
RunsThrough ==
    /\ Running /\ lastOp'.op = "update"
    /\ ~TimeUp(Countdown(Engine, lastOp'.dt))

\* the object o, fading when update(dt) is called, is in objs after it, dt
\* older and moved by one integration step
FadedOn(o, dt, objs) ==
    \E k \in 1..Len(objs) :
        /\ objs[k].id = o.id /\ objs[k].fading
        /\ objs[k].fadeTimer = o.fadeTimer + dt
        /\ objs[k].vy = o.vy + (gravity * dt) \div TimeUnit
        /\ objs[k].x = Integrate(o, dt).x /\ objs[k].y = Integrate(o, dt).y

OutOfBounds(o) == o.y > 1200 \/ o.x < -150 \/ o.x > 1150
\* the ids of the pieces the hits of the last update() split off
PiecesOfFrame(log) == UNION {PieceIds(log[i]) : i \in 1..Len(log)}

\* C24: in every update(dt) of a running engine past the countdown, an object
\* that is not fading and is past y = 1.2, x = -0.15 or x = 1.15 after the
\* integration step is removed in this update: it is not in the live set
\* afterwards, onRemove fired for it and it is in the removed list.  An
\* object that is not fading and within the bounds after the integration step
\* stays in the live set and is not in the removed list.  Of the objects
\* spawned in the frame's batch, those still live and not fading are within
\* the bounds.
C24_BoundsRemoval ==
    [][RunsThrough =>
          /\ \A k \in 1..Len(objects) :
                ~objects[k].fading =>
                    IF OutOfBounds(Integrate(objects[k], lastOp'.dt))
                    THEN /\ objects[k].id \notin ObjectIds(objects')
                         /\ \E j \in 1..Len(frameInfo'.removed) :
                               frameInfo'.removed[j] = objects[k].id
                         /\ \E j \in 1..Len(events') :
                               events'[j] = [cb |-> "onRemove", arg |-> objects[k].id]
                    ELSE /\ objects[k].id \in ObjectIds(objects')
                         /\ \A j \in 1..Len(frameInfo'.removed) :
                               frameInfo'.removed[j] # objects[k].id
          /\ \A k \in 1..Len(objects') :
                (~objects'[k].fading
                   /\ objects'[k].id \notin PiecesOfFrame(hitLog')) =>
                    ~OutOfBounds(objects'[k])
          /\ \A k \in 1..Len(objects') : objects'[k].active]_vars
\* the first update() of a game, 20 s long, has spawned a batch and removed
\* all of it: no object was ever hit, so none was fading
C24_Witness ==
    /\ lastOp = [op |-> "update", dt |-> 20000] /\ elapsed = 20000
    /\ frameInfo.spawned # <<>>
    /\ frameInfo.removed # <<>>
    /\ \A j \in 1..Len(frameInfo.spawned) :
          \E i \in 1..Len(frameInfo.removed) :
              frameInfo.removed[i] = frameInfo.spawned[j]
    /\ objects = <<>>

\* C25: after every update() that leaves the game running,
\* spawnInterval = max(0.4, 1.5 - elapsed * 0.003) and
\* bombChance = min(0.25, 0.12 + elapsed * 0.001); no step but reset() makes
\* spawnInterval larger or bombChance smaller, and spawnInterval >= 0.4 and
\* bombChance <= 0.25 throughout.
C25_DifficultyRamp ==
    [][/\ (lastOp'.op = "update" /\ ~isGameOver') =>
              /\ spawnInterval' = Max(400000, 1500000 - elapsed' * 3)
              /\ bombChance' = Min(250000, 120000 + elapsed')
       /\ lastOp'.op # "reset" =>
              (spawnInterval' <= spawnInterval /\ bombChance' >= bombChance)
       /\ spawnInterval' >= 400000 /\ bombChance' <= 250000]_vars
\* update() has just returned in a game that has lasted more than 370 s:
\* both ramps stand at their bounds
C25_Witness ==
    /\ lastOp.op = "update" /\ ~isGameOver
    /\ elapsed > 370 * TimeUnit
    /\ spawnInterval = minSpawnInterval /\ bombChance = maxBombChance

\* the size of the batch the last update() spawned: the spawned objects that
\* are no pieces
BatchSize(frame, log) == Len(frame.spawned) - Cardinality(PiecesOfFrame(log))
\* what C26 says of one update(dt) of a running engine past the countdown:
\* spawnTimer + dt is compared with the spawnInterval of this frame; when it
\* has reached it spawnTimer is 0 afterwards and the batch has between 1 and
\* ceil(min(3, 1 + elapsed/20)) objects, otherwise spawnTimer has grown by dt
\* and nothing is spawned
SpawnsAsClaimed ==
    IF (spawnTimer + lastOp'.dt) * 1000 >= spawnInterval'
    THEN /\ spawnTimer' = 0
         /\ BatchSize(frameInfo', hitLog') >= 1
         /\ BatchSize(frameInfo', hitLog')
               <= 1 + Min(2, (elapsed' + 20 * TimeUnit - 1) \div (20 * TimeUnit))
    ELSE /\ spawnTimer' = spawnTimer + lastOp'.dt
         /\ frameInfo'.spawned = <<>>

DistSq(p, q) == (p.x - q.x) * (p.x - q.x) + (p.y - q.y) * (p.y - q.y)
\* where the hand was one tick of 1/60 s earlier
TickEarlier(hand) == [x |-> hand.x - hand.vx \div 60, y |-> hand.y - hand.vy \div 60]
\* (p - c) . (q - p)
Along(p, q, c) == (p.x - c.x) * (q.x - p.x) + (p.y - c.y) * (q.y - p.y)
\* the point of the segment from p to q nearest to c is within r of c: the
\* nearest point is p, q, or the foot of the perpendicular from c
NearestWithin(p, q, c, r) ==
    IF Along(p, q, c) >= 0 THEN DistSq(p, c) <= r * r
    ELSE IF -Along(p, q, c) >= DistSq(p, q) THEN DistSq(q, c) <= r * r
    ELSE DistSq(p, c) * DistSq(p, q) - Along(p, q, c) * Along(p, q, c)
             <= r * r * DistSq(p, q)
\* the segment from p to q, p # q, meets the circle of radius r around c: its
\* nearest point is within r and one of its ends is not inside
SegmentMeetsCircle(p, q, c, r) ==
    /\ p # q
    /\ NearestWithin(p, q, c, r)
    /\ DistSq(p, c) >= r * r \/ DistSq(q, c) >= r * r
\* the line through p and q stays away from the circle: the discriminant of
\* the quadratic is negative
LineMissesCircle(p, q, c, r) ==
    DistSq(p, c) * DistSq(p, q) - Along(p, q, c) * Along(p, q, c)
        > r * r * DistSq(p, q)

\* C27: for a visible hand with speed >= 0.3, checkCollision(hand, obj) is
\* true exactly when the hand is less than handRadius + obj.radius from the
\* object's centre, or the segment from where the hand was 1/60 s earlier to
\* where it is meets the circle of that radius around the object; when the
\* line through the two positions misses the circle the result is false.
C27_StaticOrSweptHit ==
    (lastOp.op = "checkCollision" /\ lastOp.hand.visible /\ lastOp.hand.speed >= 300)
        => /\ lastOp.hit =
                 \/ DistSq(lastOp.hand, SweepObject)
                       < (50 + SweepObject.radius) * (50 + SweepObject.radius)
                 \/ SegmentMeetsCircle(TickEarlier(lastOp.hand), lastOp.hand,
                                       SweepObject, 50 + SweepObject.radius)
           /\ LineMissesCircle(TickEarlier(lastOp.hand), lastOp.hand,
                               SweepObject, 50 + SweepObject.radius)
                 => ~lastOp.hit
\* checkCollision() has just returned true for a hand that is past the rim
\* of the object and was inside it one tick earlier
C27_Witness ==
    /\ lastOp.op = "checkCollision" /\ lastOp.hit
    /\ DistSq(lastOp.hand, SweepObject)
          > (50 + SweepObject.radius) * (50 + SweepObject.radius)
    /\ DistSq(TickEarlier(lastOp.hand), SweepObject)
          < (50 + SweepObject.radius) * (50 + SweepObject.radius)

\* the callbacks of one resolved hit, p being its probe
HitEvents(p) ==
    IF p.kind = "fruit"
    THEN [j \in 1..Len(p.pieces) |-> [cb |-> "onSpawn", arg |-> p.pieces[j]]]
         \o <<[cb |-> "onSlice", arg |-> p.id], [cb |-> "onScore", arg |-> p.scoreAfter]>>
    ELSE <<[cb |-> IF p.kind = "bomb" THEN "onBomb" ELSE "onHeart", arg |-> p.id],
           [cb |-> "onTimeChange", arg |-> p.timeAfter]>>
RECURSIVE HitEventsFrom(_, _)
HitEventsFrom(log, i) ==
    IF i > Len(log) THEN <<>> ELSE HitEvents(log[i]) \o HitEventsFrom(log, i + 1)
\* the callbacks of a frame after the countdown's onTimeChange, in the order
\* of C28: the batch, the hits, the removals
EventsAfterCountdown(frame, log) ==
    [j \in 1..BatchSize(frame, log) |-> [cb |-> "onSpawn", arg |-> frame.spawned[j]]]
    \o HitEventsFrom(log, 1)
    \o [j \in 1..Len(frame.removed) |-> [cb |-> "onRemove", arg |-> frame.removed[j]]]

\* C28: the callbacks update() fires on an engine that is neither paused nor
\* over are: onTimeChange of the countdown; onSpawn for each object of the
\* batch; for each resolved hit in the order of the returned hits, onSpawn of
\* the pieces, onSlice and onScore (fruit), onBomb and onTimeChange (bomb) or
\* onHeart and onTimeChange (heart); then onRemove for each removed object.
C28_CallbackOrder ==
    (lastOp.op = "update" /\ ~isPaused /\ (isGameOver => events # <<>>))
        => /\ events # <<>>
           /\ events[1].cb = "onTimeChange"
           /\ SubSeq(events, 2, Len(events)) = EventsAfterCountdown(frameInfo, hitLog)
\* update() has just spawned a batch, resolved a bomb hit and a hit on a
\* fruit that split, and removed an object
C28_Witness ==
    /\ lastOp.op = "update" /\ ~isPaused
    /\ BatchSize(frameInfo, hitLog) > 0
    /\ frameInfo.removed # <<>>
    /\ \E i \in HitsOf("fruit") : Len(hitLog[i].pieces) = 2
    /\ HitsOf("bomb") # {}

\* C29: with two engines in use, the ids in the live set of each are pairwise
\* distinct and increase in the order the objects were created.
C29_IdsPerEngine ==
    /\ Increasing(IdsOf(objects))
    /\ Increasing(peerIds)

\* C30: in every state reached by reset(), pause toggles and update() calls,
\* isGameOver holds exactly when timeRemaining is 0.
C30_OverExactlyAtZero == isGameOver <=> timeRemaining = 0
\* update() has just ended the game with a dt larger than the time that was
\* left: onTimeChange reported a negative time, timeRemaining stands at 0
C30_Witness ==
    /\ lastOp.op = "update" /\ isGameOver /\ timeRemaining = 0
    /\ Len(events) = 1
    /\ events[1].cb = "onTimeChange" /\ events[1].arg < 0

\* C31: no hit is resolved on an object that is fading when its turn in the
\* loop over the hits comes.
C31_NoHitOnFading == \A i \in 1..Len(hitLog) : ~hitLog[i].wasFading

\* the callbacks cb fired by the last call, as the sequence of their arguments
ArgsOf(cb) == SelectSeq([j \in 1..Len(events) |->
                            IF events[j].cb = cb THEN events[j].arg ELSE -1],
                        LAMBDA a : a # -1)
\* no value occurs twice in the sequence q
NoRepeat(q) == \A i, j \in 1..Len(q) : q[i] = q[j] => i = j

\* C32: in one update() no object occurs twice in the returned removed list
\* and onRemove is fired at most once for an object.
C32_RemovedOnce ==
    /\ NoRepeat(frameInfo.removed)
    /\ NoRepeat(ArgsOf("onRemove"))

\* the object with the id id is fading in objs, or not in objs
FadingOrGone(id, objs) ==
    \A k \in 1..Len(objs) : objs[k].id = id => objs[k].fading

\* C33: an object that is fading stays fading as long as it is in the live
\* set; an update() returns at most one hit per object, none on an object
\* that was fading when it was called, and leaves every object it returns a
\* hit on fading or removed: no object is in the hits of two updates,
\* whatever the state of the cooldown.
C33_HitOnceThenFading ==
    [][lastOp'.op # "reset" =>
          /\ \A k \in 1..Len(objects) :
                objects[k].fading =>
                    /\ FadingOrGone(objects[k].id, objects')
                    /\ \A j \in 1..Len(frameInfo'.hits) :
                          frameInfo'.hits[j].id # objects[k].id
          /\ \A j \in 1..Len(frameInfo'.hits) :
                FadingOrGone(frameInfo'.hits[j].id, objects')
          /\ NoRepeat([j \in 1..Len(frameInfo'.hits) |-> frameInfo'.hits[j].id])]_vars
\* update(0) has just returned one hit, by the right hand, on an object that
\* is not the first of the live set, while the left hand was on an earlier
\* object: all of these have been fading since an earlier frame and are
\* out of cooldown
C33_Witness ==
    /\ lastOp = [op |-> "update", dt |-> 0]
    /\ Len(frameInfo.hits) = 1 /\ frameInfo.hits[1].side = "right"
    /\ DOMAIN recentHits = {frameInfo.hits[1].id}
    /\ \E k \in 2..Len(objects) :
          /\ objects[k].id = frameInfo.hits[1].id
          /\ \A i \in 1..(k - 1) :
                objects[i].fading /\ objects[i].fadeTimer > 0

\* C34: after reset() the cooldown of an id hit before it is gone: no object
\* that is live and not fading, and so was never hit, has an id on cooldown.
C34_NoCooldownAcrossReset ==
    \A k \in 1..Len(objects) :
        (IsLive(objects[k]) /\ objects[k].id \in DOMAIN recentHits)
            => Expired(recentHits[objects[k].id])

\* C35: whenever combo > 0, 0 < comboTimer <= comboWindow.
C35_ComboHasTimeLeft ==
    combo > 0 => (0 < comboTimer /\ comboTimer <= comboWindow)
\* update(0.6) has just run the timer of a combo down to 0.4 s, with no hit
\* in the frame
C35_Witness ==
    /\ lastOp = [op |-> "update", dt |-> 600]
    /\ combo > 0 /\ comboTimer = comboWindow - 600
    /\ hitLog = <<>>

\* C36: every value passed to onTimeChange lies in [0, maxTime].
C36_TimeReportedInRange ==
    \A j \in 1..Len(events) :
        events[j].cb = "onTimeChange" =>
            (0 <= events[j].arg /\ events[j].arg <= maxTime)

\* C37: a spawn batch never has more than 3 objects: not the batch update()
\* has just spawned, and not the batch of any draw of Math.random() at the
\* elapsed time reached.
C37_BatchAtMostThree ==
    /\ lastOp.op = "update" => BatchSize(frameInfo, hitLog) <= 3
    /\ \A rc \in 0..999 : SpawnCount(elapsed, rc) <= 3
\* update() has just spawned a batch of 3 with the largest draw, within the
\* first minute of the game
C37_Witness ==
    /\ lastOp.op = "update" /\ ~isGameOver
    /\ elapsed <= 60 * TimeUnit
    /\ BatchSize(frameInfo, hitLog) = 3
    /\ SpawnCount(elapsed, 999) = 3

---------------------------------------------------------------------------
(* One fruit and its pieces: frames of 0.3 s and of dt = 0, with hands on   *)
(* any one or two of the objects, for the 2.4 s in which the first batch,   *)
(* one fruit, is spawned and no second one is due; reset() starts over.     *)

FruitDtSet == {0, 300}
FruitElapsed == 2400
FruitIds == 16

NextFruit ==
    \/ \E dt \in FruitDtSet :
          /\ UpdateRunning(dt, dt, {900}, CountDraws, TRUE, FruitIds, FruitElapsed)
          /\ familyHits' = familyHits + FruitHits(hitLog', Len(hitLog'))
          /\ UNCHANGED <<loopVars, peerVars, poolVars>>
    \/ /\ Reset
       /\ familyHits' = 0
       /\ UNCHANGED <<loopVars, peerVars, poolVars>>

SpecFruit == Init /\ [][NextFruit]_vars

\* the places of objs that hold an object of generation gen
OfGeneration(objs, gen) == {k \in 1..Len(objs) : objs[k].generation = gen}

\* C38: of one spawned fruit there are never more than 2 pieces of generation
\* 1 and 4 of generation 2, 6 pieces (ids 2..7) in all and none of a later
\* generation, and at most 7 fruit hits are resolved on the fruit and its
\* pieces together.
C38_SplittingTerminates ==
    /\ \A k \in 1..Len(objects) : objects[k].generation <= 2
    /\ Cardinality(OfGeneration(objects, 0)) <= 1
    /\ Cardinality(OfGeneration(objects, 1)) <= 2
    /\ Cardinality(OfGeneration(objects, 2)) <= 4
    /\ nextId - 1 <= 6
    /\ familyHits <= 7
\* the fruit, its 2 pieces and their 4 pieces have all been hit
C38_Witness ==
    /\ familyHits = 7
    /\ nextId = 7
    /\ Len(objects) = 7
    /\ \A k \in 1..Len(objects) : objects[k].fading

---------------------------------------------------------------------------
(* A game played to its end: the engine is never paused, update() is called *)
(* again and again with a dt of 2.5 to 10 s, bombs and hearts are spawned   *)
(* and any hand may hit them as long as no heart is hit, and reset() starts *)
(* the next game once the game is over (startGame, part_000:813-858).  The  *)
(* fairness condition is that update() keeps being called with a dt of      *)
(* LiveDtSet while the game runs, which the application's gameLoop does at  *)
(* every animation frame (part_000:729-786).                                *)

LiveDtSet == {2500, 5000, 10000}
LiveElapsedSec == 45
LiveElapsed == LiveElapsedSec * TimeUnit
LiveMaxId == 20

\* no hit resolved by the update() of this step is a hit on a heart
NoHeartIsHit == \A i \in 1..Len(hitLog') : hitLog'[i].kind # "heart"

LiveRunning ==
    \E dt \in LiveDtSet :
        /\ UpdateRunning(dt, dt, {0, HeartRoll(elapsed + dt)}, CountDraws, TRUE,
                         LiveMaxId, LiveElapsed)
        /\ NoHeartIsHit
        /\ UNCHANGED outerVars
LiveExpire ==
    \E dt \in LiveDtSet : UpdateExpire(dt, dt, LiveElapsed) /\ UNCHANGED outerVars
LiveRestart == isGameOver /\ Reset /\ UNCHANGED outerVars

NextLive == LiveRunning \/ LiveExpire \/ LiveRestart

\* what every update(dt) of a running engine does first, and no other
\* operation does: elapsed grows by dt (part_000:162-164)
UpdateCalled ==
    /\ ~(isGameOver \/ isPaused)
    /\ \E dt \in LiveDtSet : elapsed' = elapsed + dt

SpecLive == Init /\ [][NextLive]_vars /\ WF_elapsed(UpdateCalled)

\* C39: with the engine never paused, update() called again and again with
\* dt >= 2.5 s and no heart hit, a game that is not over has accumulated less
\* than 30 s of dt since its reset(), and it is eventually over.
C39_GameOverWithinThirtySeconds ==
    /\ [](~isGameOver => elapsed < InitialTime)
    /\ (~isGameOver ~> isGameOver)
\* update() has just ended a game in which no bomb was hit, with exactly
\* 30 s of accumulated dt
C39_Witness ==
    /\ isGameOver /\ lastOp.op = "update" /\ lastOp.dt > 0
    /\ elapsed = InitialTime
    /\ timeRemaining = 0

---------------------------------------------------------------------------
(* ObjectPool (part_001): a pool is constructed with 0 or 2 objects, then   *)
(* acquire(), release(obj) with any object the factory has made, active or  *)
(* not, and releaseAll() are called in any order.                           *)

MaxMade == 2
MaxPool == 3
PoolSizes == {0, 2}

engineIdle ==
    UNCHANGED <<engineVars, nextId, recentHits, sinceHit, frameInfo, events,
                hitLog, loopVars, peerVars, histVars>>

\* the objects of the list q
Members(q) == {q[i] : i \in 1..Len(q)}
\* this.active.indexOf(obj), counted from 1; 0 when obj is not in the list
IndexOf(q, obj) ==
    IF obj \in Members(q) THEN CHOOSE i \in 1..Len(q) :
                                   q[i] = obj /\ \A j \in 1..(i - 1) : q[j] # obj
    ELSE 0
\* q.splice(idx, 1)
SpliceOut(q, idx) == SubSeq(q, 1, idx - 1) \o SubSeq(q, idx + 1, Len(q))
\* the list q from its last object to its first
Reversed(q) == [i \in 1..Len(q) |-> q[Len(q) + 1 - i]]

\* constructor (part_001:11-20) with initialSize = n
Construct(n) ==
    /\ made = 0 /\ lastOp.op # "construct"
    /\ pool' = [i \in 1..n |-> i]
    /\ active' = <<>>
    /\ made' = n
    /\ lastOp' = [op |-> "construct", dt |-> 0]
    /\ engineIdle

\* acquire() (part_001:23-32); lastOp.obj is the object it returns
Acquire ==
    /\ lastOp.op \in {"construct", "acquire", "release", "releaseAll"}
    /\ \/ /\ Len(pool) > 0
          /\ pool' = SubSeq(pool, 1, Len(pool) - 1)
          /\ active' = Append(active, pool[Len(pool)])
          /\ made' = made
          /\ lastOp' = [op |-> "acquire", dt |-> 0, obj |-> pool[Len(pool)],
                        wasActive |-> pool[Len(pool)] \in Members(active)]
       \/ /\ Len(pool) = 0
          /\ made < MaxMade
          /\ pool' = pool
          /\ active' = Append(active, made + 1)
          /\ made' = made + 1
          /\ lastOp' = [op |-> "acquire", dt |-> 0, obj |-> made + 1,
                        wasActive |-> FALSE]
    /\ engineIdle

\* release(obj) (part_001:35-42)
Release(obj) ==
    /\ lastOp.op \in {"construct", "acquire", "release", "releaseAll"}
    /\ Len(pool) < MaxPool
    /\ active' = IF IndexOf(active, obj) # 0
                 THEN SpliceOut(active, IndexOf(active, obj))
                 ELSE active
    /\ pool' = Append(pool, obj)
    /\ made' = made
    /\ lastOp' = [op |-> "release", dt |-> 0, obj |-> obj]
    /\ engineIdle

\* releaseAll() (part_001:45-51)
ReleaseAll ==
    /\ lastOp.op \in {"construct", "acquire", "release", "releaseAll"}
    /\ Len(pool) + Len(active) <= MaxPool
    /\ pool' = pool \o Reversed(active)
    /\ active' = <<>>
    /\ made' = made
    /\ lastOp' = [op |-> "releaseAll", dt |-> 0]
    /\ engineIdle

NextPool ==
    \/ \E n \in PoolSizes : Construct(n)
    \/ Acquire
    \/ \E obj \in 1..made : Release(obj)
    \/ ReleaseAll

SpecPool == Init /\ [][NextPool]_vars

\* C40: no object is in both the pool and the active list, no object is
\* twice in either list, and acquire() returns no object that was active.
C40_PoolAndActiveApart ==
    /\ Members(pool) \cap Members(active) = {}
    /\ NoRepeat(pool)
    /\ NoRepeat(active)
    /\ lastOp.op = "acquire" => ~lastOp.wasActive

===========================================================================
